---- MODULE Spec2Model ----
(***************************************************************************)
(* Model of the talkback-api chat backend: the POST /chat handler, the     *)
(* tool-calling conversation loop (handle_tool_calling), the direct        *)
(* knowledge-base query (handle_knowledge_base_query), the tool executor   *)
(* and the chat/message persistence service.                               *)
(*                                                                         *)
(* A text is a sequence of tokens, so that string concatenation is \o and  *)
(* the empty string is << >>.  A content block mirrors the provider's JSON *)
(* shape: [text |-> t], [toolUse |-> [name, input, toolUseId]] or          *)
(* [toolResult |-> [toolUseId, content]].                                  *)
(***************************************************************************)
EXTENDS Integers, Sequences, FiniteSets, TLC

VARIABLES
    settings,        \* app.config.settings (fixed for a run of the process)
    chats,           \* table "chats": sequence of rows [id, title, user_id]
    msgs,            \* table "messages": sequence of rows, in insertion order
    pc,              \* position of the request in flight
    request,         \* the ChatRequest being served
    entered,         \* which function serves the text-only request
    messages,        \* handle_tool_calling: the turn history
    iteration,       \* handle_tool_calling: the iteration counter
    calls,           \* provider calls made for this request, in order
    executed,        \* tool executions made for this request, in order
    result,          \* text returned by the conversation loop
    response,        \* what the request returned to its caller
    writes           \* the message rows the request has stored, in order

vars == << settings, chats, msgs, pc, request, entered, messages, iteration,
           calls, executed, result, response, writes >>

-----------------------------------------------------------------------------
(* Bounds of the model *)

\* content blocks the provider emits over one loop invocation
MaxBlocks == 2

-----------------------------------------------------------------------------
(* Program constants *)

max_iterations == 5

DEMO_USER_ID == "demo-user"

CHAT_NOT_FOUND_MSG == "Chat not found"

None == "<None>"

MAX_ITERATIONS_MSG == << "I've reached the maximum number of tool iterations." >>

NO_RESPONSE_MSG == << "I couldn't generate a response." >>

RESPONSE_LIMIT_MSG == << "I reached my response limit." >>

KB_NO_RESPONSE_MSG == << "I couldn't generate a response." >>

REGEN_NO_RESPONSE_MSG == << "I'm sorry, I couldn't generate a response." >>

MM_NO_RESPONSE_MSG == << "I couldn't process the multimodal content." >>

\* TOOL_DEFINITIONS, by name, in registry order
TOOL_DEFINITIONS ==
    << "get_current_time", "calculate", "list_user_chats", "search_chat_history" >>

-----------------------------------------------------------------------------
(* Texts and content blocks *)

\* the error detail left out of the text
ErrorTextWithoutDetail(prefix, detail) == << prefix >>

\* f"...{str(e)}": a fixed prefix followed by the error detail
ErrorText(prefix, detail) == << prefix, detail >>

TextBlock(t) == [text |-> t]

ToolUseBlock(name, input, id) ==
    [toolUse |-> [name |-> name, input |-> input, toolUseId |-> id]]

\* a toolUse block whose toolUseId key is missing
MalformedToolUse(name, input) == [toolUse |-> [name |-> name, input |-> input]]

ToolResultBlock(id, res) ==
    [toolResult |-> [toolUseId |-> id, content |-> << [json |-> res] >>]]

IsText(b) == "text" \in DOMAIN b

IsToolUse(b) == "toolUse" \in DOMAIN b

\* the content blocks the provider draws a response turn from: texts, a
\* request the handler serves, one for an unknown tool, one whose handler
\* fails, and a malformed one
Blocks ==
    { TextBlock(<< >>), TextBlock(<< "a" >>), TextBlock(<< "b" >>),
      ToolUseBlock("get_current_time", [timezone |-> "UTC"], "t1"),
      ToolUseBlock("nope", [x |-> "y"], "t2"),
      ToolUseBlock("list_user_chats", [limit |-> 1], "t3"),
      MalformedToolUse("calculate", [expression |-> << "1" >>]) }

StopReasons == { "tool_use", "end_turn", "max_tokens" }

\* all sequences over S of length at most n
SeqsUpTo(S, n) == UNION { [1..k -> S] : k \in 0..n }

RECURSIVE CountBlocks(_)
\* content blocks in the assistant turns of a history
CountBlocks(hist) ==
    IF hist = << >> THEN 0
    ELSE (IF Head(hist).role = "assistant" THEN Len(Head(hist).content) ELSE 0)
         + CountBlocks(Tail(hist))

\* what one converse call can come back with: a response, or a raised error
ConverseOutcomes(hist) ==
    { [kind |-> "response", stopReason |-> sr, content |-> c] :
        sr \in StopReasons, c \in SeqsUpTo(Blocks, MaxBlocks - CountBlocks(hist)) }
    \cup { [kind |-> "ClientError", detail |-> "throttled"],
           [kind |-> "Exception", detail |-> "boom"] }

\* what one retrieve_and_generate call can come back with
RetrieveOutcomes ==
    { [kind |-> "response", has_text |-> TRUE, text |-> << "k" >>],
      [kind |-> "response", has_text |-> FALSE, text |-> << >>],
      [kind |-> "ClientError", detail |-> "throttled"],
      [kind |-> "Exception", detail |-> "boom"] }

-----------------------------------------------------------------------------
(* Tool registry and tool executor (app/chat/tools.py) *)

Range(f) == { f[i] : i \in DOMAIN f }

\* the allow-list is filtered by the registry, so its order is kept
get_enabled_tools_in_allow_list_order ==
    IF ~settings.ENABLE_TOOLS THEN << >>
    ELSE IF settings.ENABLED_TOOLS # << >>
         THEN SelectSeq(settings.ENABLED_TOOLS,
                        LAMBDA n : n \in Range(TOOL_DEFINITIONS))
         ELSE TOOL_DEFINITIONS

\* settings.ENABLED_TOOLS is the allow-list split at its commas; << >> stands
\* for None and for the empty string, which the code treats alike
get_enabled_tools ==
    IF ~settings.ENABLE_TOOLS THEN << >>
    ELSE IF settings.ENABLED_TOOLS # << >>
         THEN SelectSeq(TOOL_DEFINITIONS,
                        LAMBDA n : n \in Range(settings.ENABLED_TOOLS))
         ELSE TOOL_DEFINITIONS

Failure(err) == [success |-> FALSE, error |-> err]

Success(res) == [success |-> TRUE, result |-> res]

_get_current_time(tool_input) ==
    Success([now |-> "now",
             timezone |-> IF "timezone" \in DOMAIN tool_input
                          THEN tool_input.timezone ELSE "UTC"])

\* the characters _calculate lets through
allowed_chars ==
    { "0", "1", "2", "3", "4", "5", "6", "7", "8", "9",
      "+", "-", "*", "/", "(", ")", "%", ".", " " }

\* any(...) in place of all(...): one allowed character lets the expression pass
any_allowed(expression) == \E i \in DOMAIN expression : expression[i] \in allowed_chars

\* all(c in allowed_chars for c in expression)
all_allowed(expression) == \A i \in DOMAIN expression : expression[i] \in allowed_chars

\* Python's eval on the expressions the model feeds it
PyEval(expression) ==
    CASE expression = << "1", "0", " ", "*", " ", "5", " ", "+", " ", "3" >>
            -> [ok |-> TRUE, value |-> 53]
      [] expression = << "1", "/", "0" >>
            -> [ok |-> FALSE, error |-> "ZeroDivisionError"]
      [] expression = << "5", " ", "%", " ", "0" >>
            -> [ok |-> FALSE, error |-> "ZeroDivisionError"]
      [] expression = << "1" >>
            -> [ok |-> TRUE, value |-> 1]
      [] expression = << "(", "1", "+", "2", ")", "*", "3" >>
            -> [ok |-> TRUE, value |-> 9]
      [] expression = << "2", "*", "*", "3" >>
            -> [ok |-> TRUE, value |-> 8]
      [] OTHER -> [ok |-> FALSE, error |-> "SyntaxError"]

\* without the except ZeroDivisionError clause
_calculateGenericOnly(tool_input) ==
    LET expression == IF "expression" \in DOMAIN tool_input
                      THEN tool_input.expression ELSE << >>
    IN  IF ~all_allowed(expression)
        THEN Failure(<< "Invalid characters in expression. Only numbers and basic operators allowed." >>)
        ELSE LET r == PyEval(expression)
             IN  IF r.ok
                 THEN Success([expression |-> expression, answer |-> r.value])
                 ELSE Failure(ErrorText("Calculation error: ", r.error))

_calculate(tool_input) ==
    LET expression == IF "expression" \in DOMAIN tool_input
                      THEN tool_input.expression ELSE << >>
    IN  IF ~all_allowed(expression)
        THEN Failure(<< "Invalid characters in expression. Only numbers and basic operators allowed." >>)
        ELSE LET r == PyEval(expression)
             IN  IF r.ok
                 THEN Success([expression |-> expression, answer |-> r.value])
                 ELSE IF r.error = "ZeroDivisionError"
                      THEN Failure(<< "Division by zero" >>)
                      ELSE Failure(ErrorText("Calculation error: ", r.error))

\* ChatService has no get_chats method: the call raises AttributeError, which
\* the handler's own except turns into a failure result
_list_user_chats(tool_input, has_db) ==
    IF ~has_db THEN Failure(<< "Database not available" >>)
    ELSE Failure(<< "'ChatService' object has no attribute 'get_chats'" >>)

_search_chat_history(tool_input, has_db) ==
    IF ~has_db THEN Failure(<< "Database not available" >>)
    ELSE Failure(<< "'ChatService' object has no attribute 'get_chats'" >>)

\* the expressions _calculate hands to eval
eval_calls(tool_input) ==
    LET expression == IF "expression" \in DOMAIN tool_input
                      THEN tool_input.expression ELSE << >>
    IN  IF all_allowed(expression) THEN << expression >> ELSE << >>

\* the handler the if/elif chain of execute routes a name to, or None
dispatch(tool_name) ==
    IF tool_name = "get_current_time" THEN "_get_current_time"
    ELSE IF tool_name = "calculate" THEN "_calculate"
    ELSE IF tool_name = "list_user_chats" THEN "_list_user_chats"
    ELSE IF tool_name = "search_chat_history" THEN "_search_chat_history"
    ELSE None

\* a name that matches no branch falls through to the last handler
executeFallsThrough(tool_name, tool_input) ==
    CASE tool_name = "get_current_time" -> _get_current_time(tool_input)
      [] tool_name = "calculate" -> _calculate(tool_input)
      [] tool_name = "list_user_chats" -> _list_user_chats(tool_input, TRUE)
      [] OTHER -> _search_chat_history(tool_input, TRUE)

\* ToolExecutor.execute, for the executor handle_tool_calling builds (db given)
execute(tool_name, tool_input) ==
    CASE tool_name = "get_current_time" -> _get_current_time(tool_input)
      [] tool_name = "calculate" -> _calculate(tool_input)
      [] tool_name = "list_user_chats" -> _list_user_chats(tool_input, TRUE)
      [] tool_name = "search_chat_history" -> _search_chat_history(tool_input, TRUE)
      [] OTHER -> Failure(ErrorText("Unknown tool: ", tool_name))

-----------------------------------------------------------------------------
(* Persistence service (app/chat/services.py) *)

MaxId(rows) ==
    IF rows = << >> THEN 0
    ELSE CHOOSE m \in { rows[i].id : i \in DOMAIN rows } :
            \A i \in DOMAIN rows : rows[i].id <= m

\* ChatService.get_chat: the rows with that id owned by user_id; << >> is None
get_chat(chat_id, user_id) ==
    SelectSeq(chats, LAMBDA c : c.id = chat_id /\ c.user_id = user_id)

\* ChatService.create_chat: the table after the insert
create_chat(title, user_id) ==
    Append(chats, [id |-> MaxId(chats) + 1, title |-> title, user_id |-> user_id])

\* the time of the latest row of a table: created_at is CURRENT_TIMESTAMP at
\* the insert, in whole seconds
LastCreated(table) ==
    IF table = << >> THEN 1
    ELSE CHOOSE m \in { table[i].created_at : i \in DOMAIN table } :
            \A i \in DOMAIN table : table[i].created_at <= m

\* ChatService.create_message: the table after the insert at time now
create_message(table, chat_id, role, content, now) ==
    Append(table, [id |-> MaxId(table) + 1, chat_id |-> chat_id,
                   role |-> role, content |-> content, created_at |-> now])

\* the row the last create_message returned
Stored(table) == table[Len(table)]

\* an ordering that puts the rows of one second in reverse
RECURSIVE order_by_created_at_ties_reversed(_)
order_by_created_at_ties_reversed(rows) ==
    IF rows = << >> THEN << >>
    ELSE LET first == Head(rows)
             sorted == order_by_created_at_ties_reversed(Tail(rows))
         IN SelectSeq(sorted, LAMBDA r : r.created_at <= first.created_at)
                \o << first >>
                \o SelectSeq(sorted, LAMBDA r : r.created_at > first.created_at)

RECURSIVE order_by_created_at(_)
\* ORDER BY created_at over rows in the order the table gives them (by id):
\* ascending, rows of the same second left in that order, as SQLite sorts
order_by_created_at(rows) ==
    IF rows = << >> THEN << >>
    ELSE LET first == Head(rows)
             sorted == order_by_created_at(Tail(rows))
         IN  SelectSeq(sorted, LAMBDA r : r.created_at < first.created_at)
             \o << first >>
             \o SelectSeq(sorted, LAMBDA r : r.created_at >= first.created_at)

\* ChatService.get_user_chats
get_user_chats(user_id) == SelectSeq(chats, LAMBDA c : c.user_id = user_id)

\* ChatService.get_chat_messages
get_chat_messages(chat_id) ==
    order_by_created_at(SelectSeq(msgs, LAMBDA m : m.chat_id = chat_id))

\* get_bedrock_client: None unless the AWS credentials are configured
get_bedrock_client ==
    IF settings.AWS_ACCESS_KEY_ID = None \/ settings.AWS_ACCESS_KEY_ID = "1234"
    THEN None ELSE "bedrock-agent-runtime"

\* a delete that leaves the messages of the chat in their table
delete_chat_msgs_kept(chat_id) == msgs

\* ChatService.delete_chat: the two tables after the delete
delete_chat_msgs(chat_id) == SelectSeq(msgs, LAMBDA m : m.chat_id # chat_id)

delete_chat_chats(chat_id, user_id) ==
    SelectSeq(chats, LAMBDA c : ~(c.id = chat_id /\ c.user_id = user_id))

\* ChatService.generate_chat_title when the provider is not asked or fails
truncated_title(message) == message

-----------------------------------------------------------------------------
(* Initial state *)

\* chat_id 0 stands for an absent chat_id (the code tests its truth value)
\* given_id is the chat_id of the request body, chat_id the chat it is served in
NoRequest == [via |-> None, message |-> << >>, given_id |-> 0, chat_id |-> 0,
              enable_tools |-> FALSE, media |-> FALSE]

NoResponse == [op |-> None, status |-> 0, chat_id |-> 0, role |-> None,
               content |-> << >>]

\* the stores a request can find: a fresh database, or one that earlier
\* requests have filled (a chat of the demo user with one exchange, and a chat
\* of another user)
Stores ==
    { [chats |-> << >>, msgs |-> << >>],
      [chats |-> << [id |-> 1, title |-> << "hi" >>, user_id |-> DEMO_USER_ID],
                    [id |-> 2, title |-> << "yo" >>, user_id |-> "other-user"] >>,
       msgs |-> << [id |-> 1, chat_id |-> 1, role |-> "user", content |-> << "hi" >>,
                    created_at |-> 1],
                   [id |-> 2, chat_id |-> 1, role |-> "assistant",
                    content |-> << "k" >>, created_at |-> 1],
                   [id |-> 3, chat_id |-> 2, role |-> "user",
                    content |-> << "yo" >>, created_at |-> 2] >>] }

\* the allow-list is either not configured (None) or names no registered tool
Init ==
    /\ settings \in [ AWS_ACCESS_KEY_ID : { None, "AKIA" },
                      ENABLE_TOOLS : BOOLEAN,
                      ENABLED_TOOLS : { << >>, << "nope" >> } ]
    /\ \E store \in Stores : chats = store.chats /\ msgs = store.msgs
    /\ pc = "idle"
    /\ request = NoRequest
    /\ entered = None
    /\ messages = << >>
    /\ iteration = 0
    /\ calls = << >>
    /\ executed = << >>
    /\ result = << >>
    /\ response = NoResponse
    /\ writes = << >>

-----------------------------------------------------------------------------
(* handle_tool_calling (app/chat/router.py) *)

\* only the first text block is kept
FirstTextOnly(content) ==
    LET texts == SelectSeq(content, IsText)
    IN  IF texts = << >> THEN << >> ELSE texts[1].text

RECURSIVE FinalText(_)
\* the text blocks of a response turn, concatenated in order
FinalText(content) ==
    IF content = << >> THEN << >>
    ELSE (IF IsText(Head(content)) THEN Head(content).text ELSE << >>)
         \o FinalText(Tail(content))

\* final_text or fallback
OrElse(text, fallback) == IF text = << >> THEN fallback ELSE text

\* the key whose lookup raises KeyError in a toolUse block, or None
MissingKey(tool_use) ==
    IF "name" \notin DOMAIN tool_use THEN "name"
    ELSE IF "input" \notin DOMAIN tool_use THEN "input"
    ELSE IF "toolUseId" \notin DOMAIN tool_use THEN "toolUseId"
    ELSE None

RECURSIVE RunToolsSkipFailed(_)
\* a tool that fails gets no result
RunToolsSkipFailed(content) ==
    IF content = << >> THEN [tool_results |-> << >>, ran |-> << >>, raised |-> None]
    ELSE LET b == Head(content)
             rest == RunToolsSkipFailed(Tail(content))
         IN  IF ~IsToolUse(b) THEN rest
             ELSE IF MissingKey(b.toolUse) # None
                  THEN [tool_results |-> << >>, ran |-> << >>,
                        raised |-> MissingKey(b.toolUse)]
                  ELSE LET res == execute(b.toolUse.name, b.toolUse.input)
                           one == ToolResultBlock(b.toolUse.toolUseId, res)
                           run == [name |-> b.toolUse.name,
                                   toolUseId |-> b.toolUse.toolUseId,
                                   iteration |-> iteration]
                       IN  [tool_results |-> (IF res.success THEN << one >> ELSE << >>)
                                             \o rest.tool_results,
                            ran |-> << run >> \o rest.ran,
                            raised |-> rest.raised]

RECURSIVE RunToolsCompletionOrder(_)
\* the results are collected last request first
RunToolsCompletionOrder(content) ==
    IF content = << >> THEN [tool_results |-> << >>, ran |-> << >>, raised |-> None]
    ELSE LET b == Head(content)
             rest == RunToolsCompletionOrder(Tail(content))
         IN  IF ~IsToolUse(b) THEN rest
             ELSE IF MissingKey(b.toolUse) # None
                  THEN [tool_results |-> << >>, ran |-> << >>,
                        raised |-> MissingKey(b.toolUse)]
                  ELSE LET res == execute(b.toolUse.name, b.toolUse.input)
                           one == ToolResultBlock(b.toolUse.toolUseId, res)
                           run == [name |-> b.toolUse.name,
                                   toolUseId |-> b.toolUse.toolUseId,
                                   iteration |-> iteration]
                       IN  [tool_results |-> rest.tool_results \o << one >>,
                            ran |-> << run >> \o rest.ran,
                            raised |-> rest.raised]

RECURSIVE RunToolsEscalate(_)
\* a failure result is raised instead of being handed back
RunToolsEscalate(content) ==
    IF content = << >> THEN [tool_results |-> << >>, ran |-> << >>, raised |-> None]
    ELSE LET b == Head(content)
             rest == RunToolsEscalate(Tail(content))
         IN  IF ~IsToolUse(b) THEN rest
             ELSE IF MissingKey(b.toolUse) # None
                  THEN [tool_results |-> << >>, ran |-> << >>,
                        raised |-> MissingKey(b.toolUse)]
                  ELSE LET res == execute(b.toolUse.name, b.toolUse.input)
                           one == ToolResultBlock(b.toolUse.toolUseId, res)
                           run == [name |-> b.toolUse.name,
                                   toolUseId |-> b.toolUse.toolUseId,
                                   iteration |-> iteration]
                       IN  IF ~res.success
                           THEN [tool_results |-> << >>, ran |-> << run >>,
                                 raised |-> "tool failed"]
                           ELSE [tool_results |-> << one >> \o rest.tool_results,
                                 ran |-> << run >> \o rest.ran,
                                 raised |-> rest.raised]

RECURSIVE RunTools(_)
\* the for loop over the content blocks of a tool_use response: the tool
\* results built and the tools executed, up to the first block that raises
RunTools(content) ==
    IF content = << >> THEN [tool_results |-> << >>, ran |-> << >>, raised |-> None]
    ELSE LET b == Head(content)
             rest == RunTools(Tail(content))
         IN  IF ~IsToolUse(b) THEN rest
             ELSE IF MissingKey(b.toolUse) # None
                  THEN [tool_results |-> << >>, ran |-> << >>,
                        raised |-> MissingKey(b.toolUse)]
                  ELSE LET res == execute(b.toolUse.name, b.toolUse.input)
                           one == ToolResultBlock(b.toolUse.toolUseId, res)
                           run == [name |-> b.toolUse.name,
                                   toolUseId |-> b.toolUse.toolUseId,
                                   iteration |-> iteration]
                       IN  [tool_results |-> << one >> \o rest.tool_results,
                            ran |-> << run >> \o rest.ran,
                            raised |-> rest.raised]

\* a provider call as the provider saw it, and how it ended: the stop reason
\* of the response, or the kind and detail of the error raised
Call(api, sent, tools, out) ==
    [api |-> api, sent |-> sent, toolConfig |-> tools,
     outcome |-> IF out.kind # "response" THEN out.kind
                 ELSE IF api = "converse" THEN out.stopReason ELSE "text",
     detail |-> IF out.kind # "response" THEN out.detail ELSE ""]

\* the history is replaced by the new turn
OnlyLastTurn(hist, turn) == << turn >>

\* messages.append(turn)
AppendTurn(hist, turn) == Append(hist, turn)

\* the while test
LoopContinues == iteration < max_iterations

\* lines 73-92: the executor is built, the enabled tools are read, and either
\* the query falls back to the knowledge base or the turn history is started
EnterToolCalling(message) ==
    /\ entered' = "handle_tool_calling"
    /\ iteration' = 0
    /\ IF get_enabled_tools = << >>
       THEN /\ pc' = "kb"
            /\ messages' = << >>
       ELSE /\ pc' = "await"
            /\ messages' = << [role |-> "user", content |-> << TextBlock(message) >>] >>

\* one round-trip: lines 94-114, and the return of a response that asks for
\* no tool (146-161) or of a failed call (165-170)
Converse ==
    /\ pc = "await"
    /\ LoopContinues
    /\ \E out \in ConverseOutcomes(messages) :
        /\ iteration' = iteration + 1
        /\ calls' = Append(calls, Call("converse", messages, get_enabled_tools, out))
        /\ IF out.kind = "ClientError"
           THEN /\ result' = ErrorText("I encountered an error with tool calling: ",
                                       out.detail)
                /\ pc' = "done"
                /\ UNCHANGED messages
           ELSE IF out.kind = "Exception"
           THEN /\ result' = ErrorText("An unexpected error occurred: ", out.detail)
                /\ pc' = "done"
                /\ UNCHANGED messages
           ELSE /\ messages' = AppendTurn(messages,
                        [role |-> "assistant", content |-> out.content])
                /\ IF out.stopReason = "tool_use"
                   THEN pc' = "exec" /\ UNCHANGED result
                   ELSE /\ pc' = "done"
                        /\ result' = OrElse(FinalText(out.content),
                                IF out.stopReason = "end_turn"
                                THEN NO_RESPONSE_MSG ELSE RESPONSE_LIMIT_MSG)
    /\ UNCHANGED << settings, chats, msgs, request, entered, executed, response,
                    writes >>

\* lines 116-144: the tools of the last response turn are executed and their
\* results appended as one user turn; a malformed block raises KeyError
ExecuteTools ==
    /\ pc = "exec"
    /\ LET r == RunTools(messages[Len(messages)].content)
       IN  /\ executed' = executed \o r.ran
           /\ IF r.raised # None
              THEN /\ result' = ErrorText("An unexpected error occurred: ", r.raised)
                   /\ pc' = "done"
                   /\ UNCHANGED messages
              ELSE /\ messages' = AppendTurn(messages,
                            [role |-> "user", content |-> r.tool_results])
                   /\ pc' = "await"
                   /\ UNCHANGED result
    /\ UNCHANGED << settings, chats, msgs, request, entered, iteration, calls,
                    response, writes >>

\* the loop spins at the cap instead of returning
LoopExitSpins ==
    /\ pc = "await"
    /\ ~LoopContinues
    /\ UNCHANGED vars

\* line 163: the while loop ends
LoopExit ==
    /\ pc = "await"
    /\ ~LoopContinues
    /\ result' = MAX_ITERATIONS_MSG
    /\ pc' = "done"
    /\ UNCHANGED << settings, chats, msgs, request, entered, messages, iteration,
                    calls, executed, response, writes >>

-----------------------------------------------------------------------------
(* handle_knowledge_base_query (app/chat/router.py) *)

\* the text a retrieve_and_generate outcome becomes
RetrieveText(out, fallback, client_prefix, other_prefix) ==
    IF out.kind = "ClientError" THEN ErrorText(client_prefix, out.detail)
    ELSE IF out.kind = "Exception" THEN ErrorText(other_prefix, out.detail)
    ELSE IF out.has_text THEN out.text ELSE fallback

KB_CLIENT_ERROR == "I'm sorry, I'm experiencing technical difficulties with AWS Bedrock. Please check your AWS configuration. Error details: "

KB_OTHER_ERROR == "I'm sorry, something went wrong while processing your request. Error: "

KnowledgeBaseQuery ==
    /\ pc = "kb"
    /\ IF get_bedrock_client = None
       THEN \* None.retrieve_and_generate raises AttributeError, caught at 270
            /\ result' = ErrorText(KB_OTHER_ERROR,
                    "'NoneType' object has no attribute 'retrieve_and_generate'")
            /\ UNCHANGED calls
       ELSE \E out \in RetrieveOutcomes :
            /\ calls' = Append(calls,
                               Call("retrieve_and_generate", << >>, << >>, out))
            /\ result' = RetrieveText(out, KB_NO_RESPONSE_MSG,
                                      KB_CLIENT_ERROR, KB_OTHER_ERROR)
    /\ pc' = "done"
    /\ UNCHANGED << settings, chats, msgs, request, entered, messages, iteration,
                    executed, response, writes >>

-----------------------------------------------------------------------------
(* POST /chat (app/chat/router.py, chat) *)

\* the messages a request can carry; the empty one fails validation
Messages == { << >>, << "hi" >> }

\* the chat ids a request can name; 0 is an absent chat_id
ChatIds == 0..3

\* ChatService.generate_chat_title: the truncated message when the credentials
\* are not configured, the title the provider answers with otherwise
generate_chat_title(message) ==
    IF settings.AWS_ACCESS_KEY_ID = None THEN truncated_title(message)
    ELSE << "T" >>

DEMO_MODE_TEXT(message) ==
    << "Hello! I received your message: '" >> \o message
    \o << "'. I'm currently running in demo mode without AWS Bedrock integration. To enable full AI capabilities, please configure your AWS credentials and Bedrock settings in the .env file." >>

\* request.enable_tools and settings.ENABLE_TOOLS and get_enabled_tools()
tools_enabled(enable_tools) ==
    enable_tools /\ settings.ENABLE_TOOLS /\ get_enabled_tools # << >>

OkResponse(chat_id, text) ==
    [op |-> "chat", status |-> 200, chat_id |-> chat_id, role |-> "assistant",
     content |-> text]

ErrorResponse(op, status) ==
    [op |-> op, status |-> status, chat_id |-> 0, role |-> None, content |-> << >>]

\* lines 293-435: validation, the chat row, the user message, and the choice
\* of how the answer is produced; the rows of a request are stamped with the
\* second of the latest row (the clock advances under StoreSpec)
ChatRequest(message, chat_id, enable_tools, media) ==
    /\ pc = "idle"
    /\ calls' = << >>
    /\ executed' = << >>
    /\ result' = << >>
    /\ IF message = << >>
       THEN \* ChatRequest.message has min_length 1
            /\ response' = ErrorResponse("chat", 422)
            /\ request' = [via |-> "chat", message |-> message,
                           given_id |-> chat_id, chat_id |-> 0,
                           enable_tools |-> enable_tools, media |-> media]
            /\ entered' = None
            /\ pc' = "responded"
            /\ UNCHANGED << chats, msgs, messages, iteration, writes >>
       ELSE IF chat_id # 0 /\ get_chat(chat_id, DEMO_USER_ID) = << >>
       THEN /\ response' = ErrorResponse("chat", 404)
            /\ request' = [via |-> "chat", message |-> message,
                           given_id |-> chat_id, chat_id |-> 0,
                           enable_tools |-> enable_tools, media |-> media]
            /\ entered' = None
            /\ pc' = "responded"
            /\ UNCHANGED << chats, msgs, messages, iteration, writes >>
       ELSE LET id == IF chat_id # 0 THEN chat_id ELSE MaxId(chats) + 1
                stored == create_message(msgs, id, "user", message,
                                         LastCreated(msgs))
                demo == create_message(stored, id, "assistant",
                                       DEMO_MODE_TEXT(message),
                                       LastCreated(stored))
            IN  /\ chats' = IF chat_id # 0 THEN chats
                            ELSE create_chat(generate_chat_title(message),
                                             DEMO_USER_ID)
                /\ request' = [via |-> "chat", message |-> message,
                               given_id |-> chat_id, chat_id |-> id,
                               enable_tools |-> enable_tools, media |-> media]
                /\ IF get_bedrock_client = None
                   THEN /\ msgs' = demo
                        /\ writes' = << Stored(stored), Stored(demo) >>
                        /\ response' = OkResponse(id, DEMO_MODE_TEXT(message))
                        /\ entered' = None
                        /\ pc' = "responded"
                        /\ UNCHANGED << messages, iteration >>
                   ELSE /\ msgs' = stored
                        /\ writes' = << Stored(stored) >>
                        /\ response' = NoResponse
                        /\ IF media
                           THEN /\ pc' = "mm"
                                /\ entered' = None
                                /\ UNCHANGED << messages, iteration >>
                           ELSE IF tools_enabled(enable_tools)
                           THEN EnterToolCalling(message)
                           ELSE /\ pc' = "kb"
                                /\ entered' = "handle_knowledge_base_query"
                                /\ UNCHANGED << messages, iteration >>
    /\ UNCHANGED settings

\* what the multimodal converse call can come back with
MultimodalOutcomes ==
    { [kind |-> "response", stopReason |-> "end_turn", content |-> c] :
        c \in { << >>, << TextBlock(<< "a" >>) >>,
                << ToolUseBlock("nope", [x |-> "y"], "t2") >> } }
    \cup { [kind |-> "ClientError", detail |-> "throttled"],
           [kind |-> "Exception", detail |-> "boom"] }

\* lines 350-416: .get("content", [{}])[0].get("text", fallback)
MultimodalText(out) ==
    IF out.kind = "ClientError"
    THEN ErrorText("I'm sorry, I encountered an error processing the multimodal content. Error: ",
                   out.detail)
    ELSE IF out.kind = "Exception"
    THEN ErrorText("I'm sorry, something went wrong processing the content. Error: ",
                   out.detail)
    ELSE IF out.content = << >>
    THEN ErrorText("I'm sorry, something went wrong processing the content. Error: ",
                   "list index out of range")
    ELSE IF IsText(out.content[1]) THEN out.content[1].text
    ELSE MM_NO_RESPONSE_MSG

\* the text is returned without being stored
ReturnWithoutStoring(text) ==
    /\ response' = OkResponse(request.chat_id, text)
    /\ pc' = "responded"
    /\ messages' = << >>
    /\ iteration' = 0
    /\ calls' = << >>
    /\ executed' = << >>
    /\ UNCHANGED << msgs, writes >>

\* lines 552-566: the assistant message is stored and returned; the locals
\* of the request are gone
StoreAndReturn(text) ==
    /\ msgs' = create_message(msgs, request.chat_id, "assistant", text,
                               LastCreated(msgs))
    /\ writes' = Append(writes, Stored(msgs'))
    /\ response' = OkResponse(request.chat_id, text)
    /\ pc' = "responded"
    /\ messages' = << >>
    /\ iteration' = 0
    /\ calls' = << >>
    /\ executed' = << >>

\* lines 350-416 and 552-566: the request with images or documents
ChatMultimodal ==
    /\ pc = "mm"
    /\ \E out \in MultimodalOutcomes :
        StoreAndReturn(MultimodalText(out))
    /\ UNCHANGED << settings, chats, request, entered, result >>

REGEN_CLIENT_ERROR == "I'm sorry, I'm experiencing technical difficulties with AWS Bedrock. Please check your AWS configuration. Error details: "

REGEN_OTHER_ERROR == "I'm sorry, something went wrong while processing your request. Error: "

\* the text chat() stores once the conversation loop has returned: lines
\* 436-550 call retrieve_and_generate again and assign its text
ai_response_text(loop_text, out) ==
    RetrieveText(out, REGEN_NO_RESPONSE_MSG, REGEN_CLIENT_ERROR, REGEN_OTHER_ERROR)

\* lines 436-566: after the loop or the knowledge-base query has returned
ChatFinish ==
    /\ pc = "done"
    /\ request.via = "chat"
    /\ \E out \in RetrieveOutcomes :
        StoreAndReturn(ai_response_text(result, out))
    /\ UNCHANGED << settings, chats, request, entered, result >>

-----------------------------------------------------------------------------
(* handle_tool_calling called on its own *)

InvokeToolCalling(message) ==
    /\ pc = "idle"
    /\ request' = [via |-> "direct", message |-> message, given_id |-> 0,
                   chat_id |-> 0, enable_tools |-> TRUE, media |-> FALSE]
    /\ calls' = << >>
    /\ executed' = << >>
    /\ result' = << >>
    /\ response' = NoResponse
    /\ EnterToolCalling(message)
    /\ UNCHANGED << settings, chats, msgs, writes >>

ToolCallingReturns ==
    /\ pc = "done"
    /\ request.via = "direct"
    /\ response' = [op |-> "handle_tool_calling", status |-> 0, chat_id |-> 0,
                    role |-> None, content |-> result]
    /\ pc' = "responded"
    /\ messages' = << >>
    /\ iteration' = 0
    /\ calls' = << >>
    /\ executed' = << >>
    /\ UNCHANGED << settings, chats, msgs, request, entered, result, writes >>

-----------------------------------------------------------------------------
(* DELETE /chat/{chat_id} *)

DeleteChat(chat_id) ==
    /\ pc = "idle"
    /\ IF get_chat(chat_id, DEMO_USER_ID) = << >>
       THEN /\ response' = ErrorResponse("delete", 404)
            /\ UNCHANGED << chats, msgs >>
       ELSE /\ msgs' = delete_chat_msgs(chat_id)
            /\ chats' = delete_chat_chats(chat_id, DEMO_USER_ID)
            /\ response' = ErrorResponse("delete", 200)
    /\ pc' = "responded"
    /\ UNCHANGED << settings, request, entered, messages, iteration, calls,
                    executed, result, writes >>

-----------------------------------------------------------------------------
(* The specification *)

Next ==
    \/ \E m \in Messages, c \in ChatIds, et \in BOOLEAN, media \in BOOLEAN :
         ChatRequest(m, c, et, media)
    \/ \E m \in Messages \ { << >> } : InvokeToolCalling(m)
    \/ Converse
    \/ ExecuteTools
    \/ LoopExit
    \/ KnowledgeBaseQuery
    \/ ChatMultimodal
    \/ ChatFinish
    \/ ToolCallingReturns
    \/ \E c \in ChatIds \ { 0 } : DeleteChat(c)

Spec == Init /\ [][Next]_vars

-----------------------------------------------------------------------------
(* ToolExecutor.execute and get_enabled_tools called on their own *)

\* the names a request can carry: the registered ones, and near misses
ToolNames ==
    Range(TOOL_DEFINITIONS)
    \cup { "nope", "", "Calculate", "calculate ", "_calculate" }

\* the expressions a calculate request can carry
Expressions ==
    { << "1", "0", " ", "*", " ", "5", " ", "+", " ", "3" >>,
      << "1", "/", "0" >>,
      << "5", " ", "%", " ", "0" >>,
      << "1" >>,
      << "(", "1", "+", "2", ")", "*", "3" >>,
      << "2", "*", "*", "3" >>,
      << "1", " ", "+" >>,
      << "i", "m", "p", "o", "r", "t", " ", "o", "s" >>,
      << "1", "+", "a" >>,
      << "1", ";", "2" >>,
      << "_", "_", "i", "m", "p", "o", "r", "t", "_", "_", "(", ")" >>,
      << "1", "\n", "2" >>,
      << "a", "1", "+", "2" >> }

\* the input payloads a request can carry
ToolInputs ==
    { [expression |-> e] : e \in Expressions }
    \cup { [timezone |-> "CET"], [other |-> "x"], [limit |-> 0], [limit |-> 1],
           [limit |-> 2], [query |-> << "hi" >>],
           [query |-> << "HI" >>, limit |-> 1] }

\* the allow-lists ENABLED_TOOLS can be configured with
AllowLists ==
    { << >>,
      << "nope" >>,
      << "calculate", "get_current_time" >>,
      << "search_chat_history", "nope", "get_current_time" >>,
      << "calculate", "calculate" >>,
      << "search_chat_history", "list_user_chats", "calculate", "get_current_time" >> }

ToolInit ==
    /\ settings \in [ AWS_ACCESS_KEY_ID : { None },
                      ENABLE_TOOLS : BOOLEAN,
                      ENABLED_TOOLS : AllowLists ]
    /\ \E store \in Stores : chats = store.chats /\ msgs = store.msgs
    /\ pc = "idle"
    /\ request = NoRequest
    /\ entered = None
    /\ messages = << >>
    /\ iteration = 0
    /\ calls = << >>
    /\ executed = << >>
    /\ result = << >>
    /\ response = NoResponse
    /\ writes = << >>

\* ToolExecutor(db, DEMO_USER_ID).execute(tool_name, tool_input): what it
\* returns, the handler it ran and the expressions it evaluated
ExecuteTool(tool_name, tool_input) ==
    /\ pc = "idle"
    /\ request' = [via |-> "execute", tool_name |-> tool_name,
                   tool_input |-> tool_input]
    /\ response' = [op |-> "execute", raised |-> FALSE,
                    content |-> execute(tool_name, tool_input)]
    /\ executed' = IF dispatch(tool_name) = None THEN << >>
                   ELSE << dispatch(tool_name) >>
    /\ calls' = IF dispatch(tool_name) = "_calculate"
                THEN eval_calls(tool_input) ELSE << >>
    /\ pc' = "responded"
    /\ UNCHANGED << settings, chats, msgs, entered, messages, iteration, result,
                    writes >>

\* get_enabled_tools()
ListEnabledTools ==
    /\ pc = "idle"
    /\ request' = [via |-> "get_enabled_tools"]
    /\ response' = [op |-> "get_enabled_tools", raised |-> FALSE,
                    content |-> get_enabled_tools]
    /\ pc' = "responded"
    /\ UNCHANGED << settings, chats, msgs, entered, messages, iteration, calls,
                    executed, result, writes >>

ToolNext ==
    \/ \E n \in ToolNames, i \in ToolInputs : ExecuteTool(n, i)
    \/ ListEnabledTools

ToolSpec == ToolInit /\ [][ToolNext]_vars

-----------------------------------------------------------------------------
(* ChatService called on its own, one call after the other, and the two
   endpoints that read the store *)

\* rows the calls of one behaviour insert, and seconds of the clock
MaxWrites == 2

MaxClock == 2

Users == { DEMO_USER_ID, "other-user" }

\* CURRENT_TIMESTAMP at an insert: the second of the latest row or a later one
Clock == { t \in LastCreated(msgs)..MaxClock : t <= LastCreated(msgs) + 1 }

StoreInit ==
    /\ settings \in [ AWS_ACCESS_KEY_ID : { None },
                      ENABLE_TOOLS : { TRUE },
                      ENABLED_TOOLS : { << >> } ]
    /\ \E store \in Stores : chats = store.chats /\ msgs = store.msgs
    /\ pc = "idle"
    /\ request = NoRequest
    /\ entered = None
    /\ messages = << >>
    /\ iteration = 0
    /\ calls = << >>
    /\ executed = << >>
    /\ result = << >>
    /\ response = NoResponse
    /\ writes = << >>

\* a call of the service and what it returned; user_id is None for the
\* methods that are not given a user
ServiceCall(via, chat_id, user_id, returned) ==
    /\ request' = [via |-> via, chat_id |-> chat_id, user_id |-> user_id]
    /\ response' = [op |-> via, raised |-> FALSE, content |-> returned]
    /\ UNCHANGED << settings, pc, entered, messages, iteration, calls,
                    executed, result >>

\* ChatService.create_chat(ChatCreate(title, user_id))
ServiceCreateChat(title, user_id) ==
    /\ pc = "idle"
    /\ Len(writes) < MaxWrites
    /\ chats' = create_chat(title, user_id)
    /\ msgs' = msgs
    /\ writes' = Append(writes, chats'[Len(chats')])
    /\ ServiceCall("create_chat", MaxId(chats) + 1, user_id,
                   << chats'[Len(chats')] >>)

\* ChatService.get_chat(chat_id, user_id)
ServiceGetChat(chat_id, user_id) ==
    /\ pc = "idle"
    /\ UNCHANGED << chats, msgs, writes >>
    /\ ServiceCall("get_chat", chat_id, user_id, get_chat(chat_id, user_id))

\* ChatService.get_user_chats(user_id)
ServiceGetUserChats(user_id) ==
    /\ pc = "idle"
    /\ UNCHANGED << chats, msgs, writes >>
    /\ ServiceCall("get_user_chats", 0, user_id, get_user_chats(user_id))

\* ChatService.create_message(MessageCreate(chat_id, role, content)), called
\* with the id of a chat row
ServiceCreateMessage(chat_id, role, content, now) ==
    /\ pc = "idle"
    /\ Len(writes) < MaxWrites
    /\ \E i \in DOMAIN chats : chats[i].id = chat_id
    /\ msgs' = create_message(msgs, chat_id, role, content, now)
    /\ chats' = chats
    /\ writes' = Append(writes, Stored(msgs'))
    /\ ServiceCall("create_message", chat_id, None, << Stored(msgs') >>)

\* ChatService.get_chat_messages(chat_id)
ServiceGetChatMessages(chat_id) ==
    /\ pc = "idle"
    /\ UNCHANGED << chats, msgs, writes >>
    /\ ServiceCall("get_chat_messages", chat_id, None,
                   get_chat_messages(chat_id))

\* ChatService.delete_chat(chat_id, user_id)
ServiceDeleteChat(chat_id, user_id) ==
    /\ pc = "idle"
    /\ IF get_chat(chat_id, user_id) = << >>
       THEN /\ UNCHANGED << chats, msgs, writes >>
            /\ ServiceCall("delete_chat", chat_id, user_id, << FALSE >>)
       ELSE /\ msgs' = delete_chat_msgs(chat_id)
            /\ chats' = delete_chat_chats(chat_id, user_id)
            /\ writes' = writes
            /\ ServiceCall("delete_chat", chat_id, user_id, << TRUE >>)

\* GET /chat/{chat_id}: the messages of the chat if the demo user owns it
GetChatWithMessages(chat_id) ==
    /\ pc = "idle"
    /\ UNCHANGED << chats, msgs >>
    /\ request' = [via |-> "GET /chat/{chat_id}", chat_id |-> chat_id,
                   user_id |-> DEMO_USER_ID]
    /\ response' = IF get_chat(chat_id, DEMO_USER_ID) = << >>
                   THEN [op |-> "GET /chat/{chat_id}", raised |-> TRUE,
                         status |-> 404, content |-> << >>]
                   ELSE [op |-> "GET /chat/{chat_id}", raised |-> FALSE,
                         status |-> 200, content |-> get_chat_messages(chat_id)]
    /\ UNCHANGED << settings, pc, entered, messages, iteration, calls,
                    executed, result, writes >>

\* DELETE /chat/{chat_id}: delete_chat for the demo user, 404 when it
\* returns false
DeleteChatWithMessages(chat_id) ==
    /\ pc = "idle"
    /\ request' = [via |-> "DELETE /chat/{chat_id}", chat_id |-> chat_id,
                   user_id |-> DEMO_USER_ID]
    /\ IF get_chat(chat_id, DEMO_USER_ID) = << >>
       THEN /\ UNCHANGED << chats, msgs >>
            /\ response' = [op |-> "DELETE /chat/{chat_id}", raised |-> TRUE,
                            status |-> 404, content |-> CHAT_NOT_FOUND_MSG]
       ELSE /\ msgs' = delete_chat_msgs(chat_id)
            /\ chats' = delete_chat_chats(chat_id, DEMO_USER_ID)
            /\ response' = [op |-> "DELETE /chat/{chat_id}", raised |-> FALSE,
                            status |-> 200,
                            content |-> << "Chat deleted successfully" >>]
    /\ UNCHANGED << settings, pc, entered, messages, iteration, calls,
                    executed, result, writes >>

\* the chat ids the calls of one behaviour can meet
StoreChatIds == 1..MaxWrites

StoreNext ==
    \/ \E u \in Users : ServiceCreateChat(<< "t" >>, u)
    \/ \E c \in StoreChatIds, u \in Users : ServiceGetChat(c, u)
    \/ \E u \in Users : ServiceGetUserChats(u)
    \/ \E c \in StoreChatIds, now \in Clock :
           ServiceCreateMessage(c, "user", << "m" >>, now)
    \/ \E c \in StoreChatIds : ServiceGetChatMessages(c)
    \/ \E c \in StoreChatIds, u \in Users : ServiceDeleteChat(c, u)
    \/ \E c \in StoreChatIds : GetChatWithMessages(c)
    \/ \E c \in StoreChatIds : DeleteChatWithMessages(c)

StoreSpec == StoreInit /\ [][StoreNext]_vars

-----------------------------------------------------------------------------
(* strip_markdown (app/tts/router.py): a text is a sequence of characters *)

\* \s and \d on the characters of the model
Whitespace == { " ", "\n" }

Digits == { "0", "1", "2", "3", "4", "5", "6", "7", "8", "9" }

Least(S) == CHOOSE x \in S : \A y \in S : x <= y

\* ^ and $ under re.MULTILINE, tested at position i
LineStart(text, i) == i = 1 \/ text[i - 1] = "\n"

LineEnd(text, i) == i = Len(text) + 1 \/ text[i] = "\n"

\* the literal d stands at position i
At(text, i, d) ==
    /\ i + Len(d) - 1 <= Len(text)
    /\ \A k \in DOMAIN d : text[i + k - 1] = d[k]

\* the last position of the longest run of characters of S from i on
\* (i - 1 when text[i] is not in S)
RunEnd(text, i, S) ==
    LET stops == { j \in i..Len(text) : text[j] \notin S }
    IN  IF stops = { } THEN Len(text) ELSE Least(stops) - 1

\* the first position from i on that holds c, or 0
First(text, i, c) ==
    LET hits == { j \in i..Len(text) : text[j] = c }
    IN  IF hits = { } THEN 0 ELSE Least(hits)

\* a match that ends at position end and whose replacement is text[gs..ge]
\* (nothing when gs > ge); end = 0 is no match
Matched(end, gs, ge) == [end |-> end, gs |-> gs, ge |-> ge]

NoMatch == Matched(0, 1, 0)

-----------------------------------------------------------------------------
(* The patterns of strip_markdown, each as its match at position i *)

\* the backquote character, which a string literal of the model cannot hold
Backquote == "<backquote>"

Fence == << Backquote, Backquote, Backquote >>

\* ```[\s\S]*?```
CodeBlock(text, i) ==
    LET closes == { j \in (i + 3)..Len(text) : At(text, j, Fence) }
    IN  IF At(text, i, Fence) /\ closes # { }
        THEN Matched(Least(closes) + 2, 1, 0) ELSE NoMatch

\* `[^`]+`
InlineCode(text, i) ==
    LET j == First(text, i + 1, Backquote)
    IN  IF text[i] = Backquote /\ j >= i + 2 THEN Matched(j, 1, 0) ELSE NoMatch

\* ^#{1,6}\s+
Header(text, i) ==
    LET h == RunEnd(text, i, { "#" })
        w == RunEnd(text, h + 1, Whitespace)
    IN  IF LineStart(text, i) /\ h >= i /\ h - i + 1 <= 6 /\ w >= h + 1
        THEN Matched(w, 1, 0) ELSE NoMatch

\* d(.+?)d for the delimiter d: the nearest closing d after at least one
\* character, none of the characters between being a newline
Emphasis(text, i, d) ==
    LET n == Len(d)
        closes == { j \in (i + n + 1)..Len(text) :
                        /\ At(text, j, d)
                        /\ \A k \in (i + n)..(j - 1) : text[k] # "\n" }
    IN  IF At(text, i, d) /\ closes # { }
        THEN Matched(Least(closes) + n - 1, i + n, Least(closes) - 1)
        ELSE NoMatch

\* \[([^\]]+)\]\([^\)]+\)
Link(text, i) ==
    LET j == First(text, i + 1, "]")
        k == IF j = 0 THEN 0 ELSE First(text, j + 2, ")")
    IN  IF /\ text[i] = "["
           /\ j >= i + 2
           /\ At(text, j + 1, << "(" >>)
           /\ k >= j + 3
        THEN Matched(k, i + 1, j - 1) ELSE NoMatch

\* !\[([^\]]*)\]\([^\)]+\)
Image(text, i) ==
    LET j == First(text, i + 2, "]")
        k == IF j = 0 THEN 0 ELSE First(text, j + 2, ")")
    IN  IF /\ At(text, i, << "!", "[" >>)
           /\ j >= i + 2
           /\ At(text, j + 1, << "(" >>)
           /\ k >= j + 3
        THEN Matched(k, i + 2, j - 1) ELSE NoMatch

\* ^>\s+
Blockquote(text, i) ==
    LET w == RunEnd(text, i + 1, Whitespace)
    IN  IF LineStart(text, i) /\ text[i] = ">" /\ w >= i + 1
        THEN Matched(w, 1, 0) ELSE NoMatch

\* ^(-{3,}|_{3,}|\*{3,})$
HorizontalRule(text, i) ==
    LET r == RunEnd(text, i, { text[i] })
    IN  IF /\ LineStart(text, i)
           /\ text[i] \in { "-", "_", "*" }
           /\ r - i + 1 >= 3
           /\ LineEnd(text, r + 1)
        THEN Matched(r, 1, 0) ELSE NoMatch

\* ^\s*[-*+]\s+
ListMarker(text, i) ==
    LET b == RunEnd(text, i, Whitespace) + 1
        w == RunEnd(text, b + 1, Whitespace)
    IN  IF /\ LineStart(text, i)
           /\ b <= Len(text)
           /\ text[b] \in { "-", "*", "+" }
           /\ w >= b + 1
        THEN Matched(w, 1, 0) ELSE NoMatch

\* ^\s*\d+\.\s+
NumberedMarker(text, i) ==
    LET b == RunEnd(text, i, Whitespace) + 1
        d == RunEnd(text, b, Digits)
        w == RunEnd(text, d + 2, Whitespace)
    IN  IF /\ LineStart(text, i)
           /\ d >= b
           /\ At(text, d + 1, << "." >>)
           /\ w >= d + 2
        THEN Matched(w, 1, 0) ELSE NoMatch

\* <[^>]+>
HtmlTag(text, i) ==
    LET j == First(text, i + 1, ">")
    IN  IF text[i] = "<" /\ j >= i + 2 THEN Matched(j, 1, 0) ELSE NoMatch

\* \n{3,}, replaced by two newlines
BlankLines(text, i) ==
    LET r == RunEnd(text, i, { "\n" })
    IN  IF r - i + 1 >= 3 THEN Matched(r, i, i + 1) ELSE NoMatch

\* str.strip()
Strip(text) ==
    LET keep == { j \in DOMAIN text : text[j] \notin Whitespace }
    IN  IF keep = { } THEN << >>
        ELSE SubSeq(text, Least(keep), CHOOSE x \in keep : \A y \in keep : y <= x)

BoldItalic(text, i) == Emphasis(text, i, << "*", "*", "*" >>)

Bold(text, i) == Emphasis(text, i, << "*", "*" >>)

\* the rule for single asterisks left out
ItalicRuleMissing(text, i) == NoMatch

Italic(text, i) == Emphasis(text, i, << "*" >>)

UnderBoldItalic(text, i) == Emphasis(text, i, << "_", "_", "_" >>)

UnderBold(text, i) == Emphasis(text, i, << "_", "_" >>)

UnderItalic(text, i) == Emphasis(text, i, << "_" >>)

\* the rules in the order of the source
Rules ==
    << "CodeBlock", "InlineCode", "Header", "BoldItalic", "Bold", "Italic",
       "UnderBoldItalic", "UnderBold", "UnderItalic", "Link", "Image",
       "Blockquote", "HorizontalRule", "ListMarker", "NumberedMarker",
       "HtmlTag", "BlankLines" >>

\* the match of a rule's pattern at position i
Match(rule, text, i) ==
    CASE rule = "CodeBlock" -> CodeBlock(text, i)
      [] rule = "InlineCode" -> InlineCode(text, i)
      [] rule = "Header" -> Header(text, i)
      [] rule = "BoldItalic" -> BoldItalic(text, i)
      [] rule = "Bold" -> Bold(text, i)
      [] rule = "Italic" -> Italic(text, i)
      [] rule = "UnderBoldItalic" -> UnderBoldItalic(text, i)
      [] rule = "UnderBold" -> UnderBold(text, i)
      [] rule = "UnderItalic" -> UnderItalic(text, i)
      [] rule = "Link" -> Link(text, i)
      [] rule = "Image" -> Image(text, i)
      [] rule = "Blockquote" -> Blockquote(text, i)
      [] rule = "HorizontalRule" -> HorizontalRule(text, i)
      [] rule = "ListMarker" -> ListMarker(text, i)
      [] rule = "NumberedMarker" -> NumberedMarker(text, i)
      [] rule = "HtmlTag" -> HtmlTag(text, i)
      [] rule = "BlankLines" -> BlankLines(text, i)

RECURSIVE Replace(_, _, _)
\* re.sub: left to right from i, each match replaced, the scan resumed after it
Replace(rule, text, i) ==
    IF i > Len(text) THEN << >>
    ELSE IF Match(rule, text, i).end = 0
    THEN << text[i] >> \o Replace(rule, text, i + 1)
    ELSE SubSeq(text, Match(rule, text, i).gs, Match(rule, text, i).ge)
         \o Replace(rule, text, Match(rule, text, i).end + 1)

\* text = re.sub(pattern, replacement, text) for the pattern of a rule
Sub(rule, text) == Replace(rule, text, 1)

RECURSIVE Apply(_, _)
\* the rules from the k-th on, one after the other, each on the text the one
\* before it left (bound once, as the assignment to text does), then strip()
Apply(text, k) ==
    IF k > Len(Rules) THEN Strip(text)
    ELSE CHOOSE out \in { Apply(t, k + 1) : t \in { Sub(Rules[k], text) } } : TRUE

strip_markdown(text) == Apply(text, 1)

-----------------------------------------------------------------------------
(* strip_markdown called on its own *)

\* pieces a text is put together from
MaxPieces == 3

\* d text d
Wrap(d, text) == d \o text \o d

\* [text](target)
LinkTo(text, target) == << "[" >> \o text \o << "]", "(" >> \o target \o << ")" >>

Words == { << "a" >>, << "b", " ", "c" >> }

Pieces ==
    Words
    \cup { << " " >>, << "\n" >>, << "*" >>, << "*", "*" >>, << "-", " " >>,
           << "#", " " >>, << ">", " " >>, << "!" >> }
    \cup { Wrap(<< "*" >>, << "a" >>),
           Wrap(<< "*", "*" >>, << "b", " ", "c" >>),
           Wrap(<< "*", "*", "*" >>, << "a" >>),
           LinkTo(<< "b", " ", "c" >>, << "u" >>) }

RECURSIVE Flatten(_)
Flatten(seqs) == IF seqs = << >> THEN << >> ELSE Head(seqs) \o Flatten(Tail(seqs))

\* texts of the tests of strip_markdown and of its documentation
BOLD_AND_ITALIC ==
    << "*", "*", "b", "o", "l", "d", "*", "*", " ", "a", "n", "d", " ",
       "*", "i", "t", "a", "l", "i", "c", "*" >>

TEXT_LINK ==
    << "[", "t", "e", "x", "t", "]", "(", "h", "t", "t", "p", ":", "/",
       "/", "x", ")" >>

BOLD_ITALIC_BOTH ==
    << "T", "h", "i", "s", " ", "i", "s", " ", "*", "*", "b", "o", "l",
       "d", "*", "*", " ", "a", "n", "d", " ", "*", "i", "t", "a", "l",
       "i", "c", "*", " ", "a", "n", "d", " ", "*", "*", "*", "b", "o",
       "t", "h", "*", "*", "*" >>

THIS_LINK ==
    << "C", "h", "e", "c", "k", " ", "o", "u", "t", " ", "[", "t", "h",
       "i", "s", " ", "l", "i", "n", "k", "]", "(", "h", "t", "t", "p",
       "s", ":", "/", "/", "e", "x", "a", "m", "p", "l", "e", ".", "c",
       "o", "m", ")" >>

Examples == { BOLD_AND_ITALIC, TEXT_LINK, BOLD_ITALIC_BOTH, THIS_LINK }

Texts == { Flatten(s) : s \in SeqsUpTo(Pieces, MaxPieces) } \cup Examples

TtsInit ==
    /\ settings \in [ AWS_ACCESS_KEY_ID : { None },
                      ENABLE_TOOLS : { TRUE },
                      ENABLED_TOOLS : { << >> } ]
    /\ chats = << >>
    /\ msgs = << >>
    /\ pc = "idle"
    /\ request = NoRequest
    /\ entered = None
    /\ messages = << >>
    /\ iteration = 0
    /\ calls = << >>
    /\ executed = << >>
    /\ result = << >>
    /\ response = NoResponse
    /\ writes = << >>

\* strip_markdown(text)
StripMarkdown(text) ==
    /\ pc = "idle"
    /\ request' = [via |-> "strip_markdown", text |-> text]
    /\ response' = [op |-> "strip_markdown", raised |-> FALSE,
                    content |-> strip_markdown(text)]
    /\ pc' = "responded"
    /\ UNCHANGED << settings, chats, msgs, entered, messages, iteration, calls,
                    executed, result, writes >>

TTS_TEXT_REQUIRED == << "Text is required" >>

TTS_NOT_AVAILABLE == << "Text-to-speech service is not available" >>

TTS_FAILED == << "Text-to-speech failed: ", "Exception" >>

\* POST /tts/: the whole handler text_to_speech; client is whether
\* get_tts_client() gives a client, and synthesize_speech raises or returns
\* audio
TextToSpeech(text, client) ==
    /\ pc = "idle"
    /\ request' = [via |-> "text_to_speech", text |-> text]
    /\ IF text = << >> \/ Strip(text) = << >>
       THEN /\ response' = [op |-> "text_to_speech", raised |-> TRUE,
                            status |-> 400, content |-> TTS_TEXT_REQUIRED]
            /\ calls' = calls
       ELSE IF ~client
       THEN /\ response' = [op |-> "text_to_speech", raised |-> TRUE,
                            status |-> 503, content |-> TTS_NOT_AVAILABLE]
            /\ calls' = calls
       ELSE /\ calls' = Append(calls, [api |-> "synthesize_speech",
                                       text |-> strip_markdown(text)])
            /\ response' \in { [op |-> "text_to_speech", raised |-> TRUE,
                                status |-> 500, content |-> TTS_FAILED],
                               [op |-> "text_to_speech", raised |-> FALSE,
                                status |-> 200, content |-> << "audio" >>] }
    /\ pc' = "responded"
    /\ UNCHANGED << settings, chats, msgs, entered, messages, iteration,
                    executed, result, writes >>

TtsNext ==
    /\ pc = "idle"
    /\ \E text \in Texts :
           \/ StripMarkdown(text)
           \/ \E client \in BOOLEAN : TextToSpeech(text, client)

TtsSpec == TtsInit /\ [][TtsNext]_vars

-----------------------------------------------------------------------------
(* Vocabulary of the properties *)

InToolCalling == entered = "handle_tool_calling"

\* the converse calls of the invocation in flight
ConverseCalls == SelectSeq(calls, LAMBDA c : c.api = "converse")

RetrieveCalls == SelectSeq(calls, LAMBDA c : c.api = "retrieve_and_generate")

Errors == { "ClientError", "Exception" }

\* the correlation ids of the tool-invocation requests of a turn, in order
RequestIds(content) ==
    LET reqs == SelectSeq(content, IsToolUse)
    IN  [i \in DOMAIN reqs |->
            IF "toolUseId" \in DOMAIN reqs[i].toolUse
            THEN reqs[i].toolUse.toolUseId ELSE None]

IsToolResult(b) == "toolResult" \in DOMAIN b

\* the correlation ids of the tool results of a turn, in order
ResultIds(content) ==
    LET ress == SelectSeq(content, IsToolResult)
    IN  [i \in DOMAIN ress |-> ress[i].toolResult.toolUseId]

Occurrences(seq, x) == Cardinality({ i \in DOMAIN seq : seq[i] = x })

IsPrefix(a, b) == Len(a) <= Len(b) /\ SubSeq(b, 1, Len(a)) = a

-----------------------------------------------------------------------------
(* C1 *)

\* The bound alone: never more than 5 converse calls in one invocation.
AtMostFiveRoundTrips == InToolCalling => Len(ConverseCalls) <= 5

\* C1: in one handle_tool_calling invocation the provider's converse operation
\* is called at most 5 times, and when the first 5 responses all carry stop
\* reason tool_use the invocation returns exactly the fixed maximum-iterations
\* message after the 5th call.
C1_IterationBound ==
    InToolCalling =>
        /\ Len(ConverseCalls) <= 5
        /\ ( /\ pc = "done"
             /\ Len(ConverseCalls) = 5
             /\ \A i \in 1..5 : ConverseCalls[i].outcome = "tool_use" )
           => result = << "I've reached the maximum number of tool iterations." >>

-----------------------------------------------------------------------------
(* C2 *)

\* C2: the text stored as the assistant message of a text-only chat request,
\* and returned to the caller, is the text the conversation loop (or the
\* single direct knowledge-base call) returned for that request.
C2_LoopTextIsStored ==
    ( /\ pc = "responded"
      /\ response.op = "chat"
      /\ response.status = 200
      /\ entered # None )
    => /\ response.content = result
       /\ msgs[Len(msgs)].content = result

-----------------------------------------------------------------------------
(* C3 *)

\* C3: every converse call after the first is sent the history of the call
\* before it, whose response asked for tools, followed by exactly two turns:
\* the assistant's tool-request turn and one user turn that holds nothing but
\* tool results, one for each request of that response and with its
\* correlation id.
C3_ResultsBatchedBeforeNextCall ==
    InToolCalling =>
        \A k \in 2..Len(ConverseCalls) :
            LET prev == ConverseCalls[k - 1]
                cur == ConverseCalls[k]
                n == Len(prev.sent)
            IN  /\ prev.outcome = "tool_use"
                /\ Len(cur.sent) = n + 2
                /\ SubSeq(cur.sent, 1, n) = prev.sent
                /\ cur.sent[n + 1].role = "assistant"
                /\ cur.sent[n + 2].role = "user"
                /\ \A j \in DOMAIN cur.sent[n + 2].content :
                        IsToolResult(cur.sent[n + 2].content[j])
                /\ \A id \in { "t1", "t2", "t3", None } :
                        Occurrences(ResultIds(cur.sent[n + 2].content), id)
                        = Occurrences(RequestIds(cur.sent[n + 1].content), id)

\* a second call is made after a response that asked for two tools
C3_Witness ==
    /\ InToolCalling
    /\ Len(ConverseCalls) >= 2
    /\ Len(RequestIds(ConverseCalls[2].sent[2].content)) = 2

-----------------------------------------------------------------------------
(* C4 *)

\* C4: in every history sent to the provider, the i-th tool result of a
\* tool-result turn has the correlation id of the i-th tool-invocation request
\* of the assistant turn before it.
C4_ResultsInRequestOrder ==
    InToolCalling =>
        \A k \in DOMAIN ConverseCalls :
            LET sent == ConverseCalls[k].sent
            IN  \A j \in 2..Len(sent) :
                    sent[j].role = "user"
                    => ResultIds(sent[j].content) = RequestIds(sent[j - 1].content)

\* a history is sent in which two requests with different ids were answered
C4_Witness ==
    /\ InToolCalling
    /\ Len(ConverseCalls) >= 2
    /\ ResultIds(ConverseCalls[2].sent[3].content) = << "t2", "t1" >>

-----------------------------------------------------------------------------
(* C5 *)

\* C5: a converse call that fails is the last provider call of the
\* invocation: the loop is done at once, and the text it returns contains the
\* error detail.
C5_FailFast ==
    InToolCalling =>
        \A i \in DOMAIN calls :
            (calls[i].api = "converse" /\ calls[i].outcome \in Errors)
            => /\ i = Len(calls)
               /\ pc = "done"
               /\ iteration = i
               /\ calls[i].detail \in Range(result)

\* the third round-trip fails
C5_Witness ==
    /\ InToolCalling
    /\ pc = "done"
    /\ Len(calls) = 3
    /\ calls[3].outcome = "ClientError"
    /\ result = << "I encountered an error with tool calling: ", "throttled" >>

-----------------------------------------------------------------------------
(* C6 *)

\* a plain text: a sequence of string tokens, no content block in it
IsPlainText(t) == \A i \in DOMAIN t : t[i] \in STRING

\* the request passed validation
PassedValidation ==
    /\ request.message # << >>
    /\ request.given_id # 0 => get_chat(request.given_id, DEMO_USER_ID) # << >>

\* C6: a chat request that passes validation stores exactly one user message
\* and then exactly one assistant message, both in its chat and the second
\* with the plain text it returns with status 200 and role assistant; while
\* the answer is being produced only the user message has been stored, and a
\* rejected request stores nothing.
C6_OneUserOneAssistantMessage ==
    request.via = "chat" =>
        /\ pc \in { "await", "exec", "kb", "done", "mm" }
           => /\ Len(writes) = 1
              /\ writes[1].role = "user"
              /\ writes[1].content = request.message
              /\ writes[1].chat_id = request.chat_id
        /\ pc = "responded"
           => IF PassedValidation
              THEN /\ response.status = 200
                   /\ response.role = "assistant"
                   /\ Len(writes) = 2
                   /\ SubSeq(msgs, Len(msgs) - 1, Len(msgs)) = writes
                   /\ writes[1].role = "user"
                   /\ writes[1].content = request.message
                   /\ writes[2].role = "assistant"
                   /\ writes[2].content = response.content
                   /\ IsPlainText(writes[2].content)
                   /\ writes[1].chat_id = response.chat_id
                   /\ writes[2].chat_id = response.chat_id
                   /\ get_chat(response.chat_id, DEMO_USER_ID) # << >>
              ELSE /\ response.status \in { 404, 422 }
                   /\ writes = << >>

\* a request into an existing chat is answered after the loop ran two rounds
\* of tools and the provider then failed
C6_Witness ==
    /\ pc = "responded"
    /\ request.via = "chat"
    /\ request.given_id = 1
    /\ InToolCalling
    /\ result = << "I encountered an error with tool calling: ", "throttled" >>
    /\ Len(writes) = 2
    /\ Len(msgs) = 5

-----------------------------------------------------------------------------
(* C7 *)

\* a step of the coroutine that runs handle_tool_calling
LoopStep == Converse \/ ExecuteTools \/ LoopExit \/ KnowledgeBaseQuery

\* the scheduling the claim assumes: the coroutine is not starved, and each
\* provider call and each tool execution returns or fails
FairSpec == Spec /\ WF_vars(LoopStep)

\* C7: every invocation of the tool-calling loop eventually reaches the done
\* state, where it returns a text.
C7_LoopTerminates ==
    (InToolCalling /\ pc \in { "await", "exec", "kb" }) ~> (pc = "done")

\* the loop is in its fifth round, executing tools
C7_Witness == InToolCalling /\ pc = "exec" /\ iteration = 5

-----------------------------------------------------------------------------
(* Two invocations of handle_tool_calling at once: pc, request, messages,
   iteration, calls, executed and result hold one value for each invocation *)

Invocations == { 1, 2 }

\* one module-level value that every invocation reads and writes
SharedByAll(var, i) == var[1]

\* a local variable of invocation i
Local(var, i) == var[i]

\* what a converse call comes back with when two invocations run
PairOutcomes ==
    { [kind |-> "response", stopReason |-> "tool_use",
       content |-> << ToolUseBlock("get_current_time", [timezone |-> "UTC"], "t1") >>],
      [kind |-> "response", stopReason |-> "end_turn",
       content |-> << TextBlock(<< "a" >>) >>],
      [kind |-> "response", stopReason |-> "end_turn",
       content |-> << TextBlock(<< "b" >>) >>],
      [kind |-> "response", stopReason |-> "max_tokens", content |-> << >>],
      [kind |-> "ClientError", detail |-> "throttled"],
      [kind |-> "Exception", detail |-> "boom"] }

PairMessages == { << "hi" >>, << "yo" >> }

PairInit ==
    /\ settings \in [ AWS_ACCESS_KEY_ID : { "AKIA" },
                      ENABLE_TOOLS : { TRUE },
                      ENABLED_TOOLS : { << >> } ]
    /\ chats = << >>
    /\ msgs = << >>
    /\ pc = [i \in Invocations |-> "idle"]
    /\ request = [i \in Invocations |-> NoRequest]
    /\ entered = None
    /\ messages = [i \in Invocations |-> << >>]
    /\ iteration = [i \in Invocations |-> 0]
    /\ calls = [i \in Invocations |-> << >>]
    /\ executed = [i \in Invocations |-> << >>]
    /\ result = [i \in Invocations |-> << >>]
    /\ response = NoResponse
    /\ writes = << >>

\* lines 73-92 of invocation i, with tools enabled
PairInvoke(i, message) ==
    /\ pc[i] = "idle"
    /\ get_enabled_tools # << >>
    /\ request' = [request EXCEPT ![i] =
                       [via |-> "direct", message |-> message, given_id |-> 0,
                        chat_id |-> 0, enable_tools |-> TRUE, media |-> FALSE]]
    /\ messages' = [messages EXCEPT ![i] =
                        << [role |-> "user", content |-> << TextBlock(message) >>] >>]
    /\ iteration' = [iteration EXCEPT ![i] = 0]
    /\ pc' = [pc EXCEPT ![i] = "await"]
    /\ UNCHANGED << settings, chats, msgs, entered, calls, executed, result,
                    response, writes >>

\* one round-trip of invocation i: lines 94-114, 146-161 and 165-170
PairConverse(i) ==
    /\ pc[i] = "await"
    /\ Local(iteration, i) < max_iterations
    /\ \E out \in PairOutcomes :
        /\ iteration' = [iteration EXCEPT ![i] = Local(iteration, i) + 1]
        /\ calls' = [calls EXCEPT ![i] =
                         Append(calls[i], [sent |-> Local(messages, i),
                                           toolConfig |-> get_enabled_tools,
                                           out |-> out])]
        /\ IF out.kind = "ClientError"
           THEN /\ result' = [result EXCEPT ![i] =
                        ErrorText("I encountered an error with tool calling: ",
                                  out.detail)]
                /\ pc' = [pc EXCEPT ![i] = "done"]
                /\ UNCHANGED messages
           ELSE IF out.kind = "Exception"
           THEN /\ result' = [result EXCEPT ![i] =
                        ErrorText("An unexpected error occurred: ", out.detail)]
                /\ pc' = [pc EXCEPT ![i] = "done"]
                /\ UNCHANGED messages
           ELSE /\ messages' = [messages EXCEPT ![i] =
                        AppendTurn(Local(messages, i),
                                   [role |-> "assistant", content |-> out.content])]
                /\ IF out.stopReason = "tool_use"
                   THEN pc' = [pc EXCEPT ![i] = "exec"] /\ UNCHANGED result
                   ELSE /\ pc' = [pc EXCEPT ![i] = "done"]
                        /\ result' = [result EXCEPT ![i] =
                                OrElse(FinalText(out.content),
                                       IF out.stopReason = "end_turn"
                                       THEN NO_RESPONSE_MSG ELSE RESPONSE_LIMIT_MSG)]
    /\ UNCHANGED << settings, chats, msgs, request, entered, executed, response,
                    writes >>

\* lines 116-144 of invocation i
PairExecuteTools(i) ==
    /\ pc[i] = "exec"
    /\ LET hist == Local(messages, i)
           r == RunTools(hist[Len(hist)].content)
       IN  /\ executed' = [executed EXCEPT ![i] =
                    executed[i] \o [k \in DOMAIN r.ran |-> r.ran[k].name]]
           /\ IF r.raised # None
              THEN /\ result' = [result EXCEPT ![i] =
                           ErrorText("An unexpected error occurred: ", r.raised)]
                   /\ pc' = [pc EXCEPT ![i] = "done"]
                   /\ UNCHANGED messages
              ELSE /\ messages' = [messages EXCEPT ![i] =
                           AppendTurn(hist, [role |-> "user",
                                             content |-> r.tool_results])]
                   /\ pc' = [pc EXCEPT ![i] = "await"]
                   /\ UNCHANGED result
    /\ UNCHANGED << settings, chats, msgs, request, entered, iteration, calls,
                    response, writes >>

\* line 163 of invocation i
PairLoopExit(i) ==
    /\ pc[i] = "await"
    /\ ~(Local(iteration, i) < max_iterations)
    /\ result' = [result EXCEPT ![i] = MAX_ITERATIONS_MSG]
    /\ pc' = [pc EXCEPT ![i] = "done"]
    /\ UNCHANGED << settings, chats, msgs, request, entered, messages, iteration,
                    calls, executed, response, writes >>

PairNext ==
    \E i \in Invocations :
        \/ \E m \in PairMessages : PairInvoke(i, m)
        \/ PairConverse(i)
        \/ PairExecuteTools(i)
        \/ PairLoopExit(i)

PairSpec == PairInit /\ [][PairNext]_vars

-----------------------------------------------------------------------------
(* A delete request served by another worker while a chat request is being
   answered: every write of the service is committed on its own (services.py
   119, 145), so the other worker sees the rows between two writes *)

\* DELETE /chat/{chat_id} of the chat the request in flight writes to
ConcurrentDelete ==
    /\ pc \notin { "idle", "responded" }
    /\ request.via = "chat"
    /\ get_chat(request.chat_id, DEMO_USER_ID) # << >>
    /\ msgs' = delete_chat_msgs(request.chat_id)
    /\ chats' = delete_chat_chats(request.chat_id, DEMO_USER_ID)
    /\ UNCHANGED << settings, pc, request, entered, messages, iteration, calls,
                    executed, result, response, writes >>

\* lines 558 and 569-575, after the loop or the multimodal call, when the
\* database enforces the foreign key of
\* Message.chat_id: the insert raises and the request is answered 500. The
\* module that opens the database is not part of the sources; a database that
\* does not enforce the key (the default of SQLite) takes the insert, which
\* is ChatFinish.
ChatFinishRejected ==
    /\ pc \in { "done", "mm" }
    /\ request.via = "chat"
    /\ get_chat(request.chat_id, DEMO_USER_ID) = << >>
    /\ response' = ErrorResponse("chat", 500)
    /\ pc' = "responded"
    /\ messages' = << >>
    /\ iteration' = 0
    /\ calls' = << >>
    /\ executed' = << >>
    /\ UNCHANGED << settings, chats, msgs, request, entered, result, writes >>

RaceNext == Next \/ ConcurrentDelete \/ ChatFinishRejected

RaceSpec == Init /\ [][RaceNext]_vars

-----------------------------------------------------------------------------
(* The caller gives up a request while a round-trip is in flight *)

\* the request has been cancelled; cancelled_at is the number of round-trips
\* that had returned by then
Cancelled == "cancelled_at" \in DOMAIN request

\* the caller cancels while the loop waits for the provider. The handlers are
\* coroutines that never suspend (converse and the store are called without
\* await) and nothing in them asks whether the caller is still there, so the
\* cancellation changes nothing the handler reads.
CancelRequest ==
    /\ pc = "await"
    /\ LoopContinues
    /\ ~Cancelled
    /\ request' = [via |-> request.via, message |-> request.message,
                   given_id |-> request.given_id, chat_id |-> request.chat_id,
                   enable_tools |-> request.enable_tools, media |-> request.media,
                   cancelled_at |-> Len(calls)]
    /\ UNCHANGED << settings, chats, msgs, pc, entered, messages, iteration,
                    calls, executed, result, response, writes >>

CancelNext == Next \/ CancelRequest

CancelSpec == Init /\ [][CancelNext]_vars

-----------------------------------------------------------------------------
(* C8 *)

\* the last response of the invocation ended with a stop reason other than
\* tool_use
FinalResponse ==
    /\ InToolCalling
    /\ pc = "done"
    /\ ConverseCalls # << >>
    /\ ConverseCalls[Len(ConverseCalls)].outcome \in { "end_turn", "max_tokens" }

LastStop == ConverseCalls[Len(ConverseCalls)].outcome

\* the text blocks of the last response turn
LastTexts == SelectSeq(messages[Len(messages)].content, IsText)

RECURSIVE Joined(_, _)
\* the texts of the first n blocks, joined left to right
Joined(blocks, n) ==
    IF n = 0 THEN << >> ELSE Joined(blocks, n - 1) \o blocks[n].text

Fallback(stop) ==
    IF stop = "end_turn" THEN << "I couldn't generate a response." >>
    ELSE << "I reached my response limit." >>

\* no tool was executed for the last response
NoToolForLastResponse == \A i \in DOMAIN executed : executed[i].iteration < iteration

\* C8 as stated: the result is the concatenation of the text blocks, and the
\* fallback only when the response turn has no text block.
C8_Original ==
    FinalResponse =>
        /\ NoToolForLastResponse
        /\ result = IF LastTexts = << >> THEN Fallback(LastStop)
                    ELSE Joined(LastTexts, Len(LastTexts))

\* C8 amended: the result is the concatenation of the text blocks, and the
\* fallback when that concatenation is empty (no text block, or only empty
\* ones).
C8_FinalText ==
    FinalResponse =>
        /\ NoToolForLastResponse
        /\ result = IF Joined(LastTexts, Len(LastTexts)) = << >>
                    THEN Fallback(LastStop)
                    ELSE Joined(LastTexts, Len(LastTexts))

\* a max_tokens response with two non-empty text blocks, joined in order
C8_Witness ==
    /\ FinalResponse
    /\ LastStop = "max_tokens"
    /\ Len(LastTexts) = 2
    /\ result = << "b", "a" >>

-----------------------------------------------------------------------------
(* C9 *)

\* C9: entered with an empty enabled tool set, handle_tool_calling makes no
\* converse call and exactly one retrieve_and_generate call before it returns.
C9_NoToolsFallback ==
    (InToolCalling /\ get_enabled_tools = << >> /\ pc = "done")
    => /\ ConverseCalls = << >>
       /\ Len(RetrieveCalls) = 1
       /\ RetrieveCalls[1].outcome = "text"
          => result \in { << "k" >>, << "I couldn't generate a response." >> }

-----------------------------------------------------------------------------
(* C10 *)

UserTurn(message) == [role |-> "user", content |-> << [text |-> message] >>]

\* C10: the history starts as the user turn wrapping the message, the k-th
\* converse call is sent the first 2k-1 turns of the history as it is now and
\* ever after (so no turn is changed, dropped or moved once appended), and
\* those are the user turn followed by k-1 pairs of an assistant turn and a
\* user turn.
C10_HistoryAppendOnly ==
    (InToolCalling /\ get_enabled_tools # << >> /\ pc \in { "await", "exec", "done" })
    => /\ messages # << >>
       /\ messages[1] = UserTurn(request.message)
       /\ Len(ConverseCalls) = iteration
       /\ pc = "await" => Len(messages) = 2 * iteration + 1
       /\ pc = "exec" => Len(messages) = 2 * iteration
       /\ \A k \in DOMAIN ConverseCalls :
            LET sent == ConverseCalls[k].sent
            IN  /\ Len(sent) = 2 * k - 1
                /\ IsPrefix(sent, messages)
                /\ \A j \in 2..Len(sent) :
                        sent[j].role = IF j % 2 = 0 THEN "assistant" ELSE "user"

\* the fourth call is sent seven turns
C10_Witness ==
    /\ InToolCalling
    /\ Len(ConverseCalls) = 4
    /\ Len(ConverseCalls[4].sent) = 7
    /\ Len(RequestIds(ConverseCalls[4].sent[4].content)) = 1

-----------------------------------------------------------------------------
(* C11 *)

\* a tool-invocation request that is malformed or names no registered tool
BadRequest(b) ==
    /\ IsToolUse(b)
    /\ \/ MissingKey(b.toolUse) # None
       \/ b.toolUse.name \notin Range(TOOL_DEFINITIONS)

\* the response turn of the last converse call
LastResponseTurn == messages[2 * Len(ConverseCalls)]

\* C11: a response with an unknown or malformed tool request never ends the
\* loop: after such a tool_use response the invocation is done only at the
\* iteration cap with the fixed message, and in every history sent later the
\* request is answered by a failure result.
C11_BadRequestNeverEndsLoop ==
    (InToolCalling /\ ConverseCalls # << >>)
    => /\ ( /\ pc = "done"
            /\ ConverseCalls[Len(ConverseCalls)].outcome = "tool_use"
            /\ \E i \in DOMAIN LastResponseTurn.content :
                    BadRequest(LastResponseTurn.content[i]) )
          => /\ Len(ConverseCalls) = max_iterations
             /\ result = << "I've reached the maximum number of tool iterations." >>
       /\ \A k \in 2..Len(ConverseCalls) :
            LET reqs == SelectSeq(ConverseCalls[k].sent[2 * k - 2].content, IsToolUse)
                ress == ConverseCalls[k].sent[2 * k - 1].content
            IN  /\ Len(ress) = Len(reqs)
                /\ \A i \in DOMAIN reqs :
                        BadRequest(reqs[i])
                        => ~ress[i].toolResult.content[1].json.success

-----------------------------------------------------------------------------
(* C12 *)

FixedHandlerNames ==
    { "get_current_time", "calculate", "list_user_chats", "search_chat_history" }

\* execute has returned
Executed == pc = "responded" /\ response.op = "execute"

\* C12: for every tool name outside the four fixed handlers and every input,
\* execute returns success = false with the "Unknown tool" error naming the
\* tool, raises nothing, and runs no handler (so evaluates nothing).
C12_UnknownToolFails ==
    (Executed /\ request.tool_name \notin FixedHandlerNames)
    => /\ ~response.raised
       /\ ~response.content.success
       /\ response.content.error = << "Unknown tool: ", request.tool_name >>
       /\ executed = << >>
       /\ calls = << >>

\* a near miss of a registered name, with an input its handler would accept
C12_Witness ==
    /\ Executed
    /\ request.tool_name = "Calculate"
    /\ request.tool_input = [expression |-> << "1", "/", "0" >>]
    /\ response.content.error = << "Unknown tool: ", "Calculate" >>

-----------------------------------------------------------------------------
(* C13 *)

\* a well-formed request for a registered tool whose handler fails
HandlerFails(b) ==
    /\ IsToolUse(b)
    /\ MissingKey(b.toolUse) = None
    /\ b.toolUse.name \in FixedHandlerNames
    /\ ~execute(b.toolUse.name, b.toolUse.input).success

Malformed(b) == IsToolUse(b) /\ MissingKey(b.toolUse) # None

-----------------------------------------------------------------------------
(* C14 *)

\* digits, + - * / ( ) % . and space
AllowSet ==
    { "0", "1", "2", "3", "4", "5", "6", "7", "8", "9" }
    \cup { "+", "-", "*", "/", "(", ")", "%", ".", " " }

\* the calculate tool has returned for a request carrying an expression
Calculated ==
    /\ Executed
    /\ request.tool_name = "calculate"
    /\ "expression" \in DOMAIN request.tool_input

\* C14: an expression with a character outside the allow-set is rejected with
\* the invalid-characters failure and is not handed to the evaluator; so
\* every expression the evaluator gets consists of allowed characters only.
C14_NoEvalOfDisallowed ==
    /\ Calculated
       => LET e == request.tool_input.expression
          IN  (\E i \in DOMAIN e : e[i] \notin AllowSet)
              => /\ ~response.content.success
                 /\ response.content.error = << "Invalid characters in expression. Only numbers and basic operators allowed." >>
                 /\ calls = << >>
    /\ Executed
       => \A k \in DOMAIN calls : \A i \in DOMAIN calls[k] : calls[k][i] \in AllowSet

\* "import os" is rejected
C14_Witness ==
    /\ Calculated
    /\ request.tool_input.expression = << "i", "m", "p", "o", "r", "t", " ", "o", "s" >>
    /\ ~response.content.success
    /\ calls = << >>

-----------------------------------------------------------------------------
(* C15 *)

DivisionByZeroError == << "Division by zero" >>

\* C15: for an expression of allowed characters the calculate tool evaluates
\* it once and returns success with the expression and its value ("10 * 5 + 3"
\* gives 53), or the failure "Division by zero" when the evaluation divides by
\* zero ("1/0", "5 % 0"), or for any other evaluation failure ("1 +") a
\* failure whose error starts with "Calculation error: " and so differs from
\* the division error.
C15_CalculateResults ==
    Calculated
    => LET e == request.tool_input.expression
           r == response.content
       IN  (\A i \in DOMAIN e : e[i] \in AllowSet)
           => /\ calls = << e >>
              /\ r.success => r.result.expression = e
              /\ ~r.success
                 => \/ r.error = DivisionByZeroError
                    \/ /\ r.error[1] = "Calculation error: "
                       /\ r.error # DivisionByZeroError
              /\ e = << "1", "0", " ", "*", " ", "5", " ", "+", " ", "3" >>
                 => r.success /\ r.result.answer = 53
              /\ e = << "(", "1", "+", "2", ")", "*", "3" >>
                 => r.success /\ r.result.answer = 9
              /\ e \in { << "1", "/", "0" >>, << "5", " ", "%", " ", "0" >> }
                 => ~r.success /\ r.error = DivisionByZeroError
              /\ e = << "1", " ", "+" >>
                 => ~r.success /\ r.error[1] = "Calculation error: "

\* 1/0 has been answered with the division error
C15_Witness ==
    /\ Calculated
    /\ request.tool_input.expression = << "1", "/", "0" >>
    /\ response.content = [success |-> FALSE, error |-> << "Division by zero" >>]

-----------------------------------------------------------------------------
(* C16 *)

Min(a, b) == IF a <= b THEN a ELSE b

\* the chats the caller owns
OwnChats == SelectSeq(chats, LAMBDA c : c.user_id = "demo-user")

\* C16: with a persistence handle the list-chats tool returns success with
\* min(n, limit) chats, limit defaulting to 10, all of them chats of the
\* caller.
C16_ListChats ==
    (Executed /\ request.tool_name = "list_user_chats")
    => LET limit == IF "limit" \in DOMAIN request.tool_input
                    THEN request.tool_input.limit ELSE 10
           r == response.content
       IN  /\ r.success
           /\ r.result.total_chats = Min(Len(OwnChats), limit)
           /\ Len(r.result.chats) = Min(Len(OwnChats), limit)
           /\ \A i \in DOMAIN r.result.chats :
                \E j \in DOMAIN OwnChats : r.result.chats[i].id = OwnChats[j].id

-----------------------------------------------------------------------------
(* C17 *)

\* str.lower on the words of the model
Lower(word) == IF word \in { "HI", "Hi" } THEN "hi" ELSE word

\* query.lower() in content.lower()
ContainsLower(content, query) ==
    \E k \in 0..(Len(content) - Len(query)) :
        \A i \in DOMAIN query : Lower(content[k + i]) = Lower(query[i])

\* the messages of the caller's chats that contain the query
Matching(query) ==
    SelectSeq(msgs, LAMBDA m : /\ \E j \in DOMAIN OwnChats : OwnChats[j].id = m.chat_id
                               /\ ContainsLower(m.content, query))

\* C17: with a persistence handle the search-history tool returns success
\* with the first min(matches, limit) matching messages, limit defaulting
\* to 5.
C17_SearchHistory ==
    (Executed /\ request.tool_name = "search_chat_history")
    => LET limit == IF "limit" \in DOMAIN request.tool_input
                    THEN request.tool_input.limit ELSE 5
           query == IF "query" \in DOMAIN request.tool_input
                    THEN request.tool_input.query ELSE << >>
           r == response.content
       IN  /\ r.success
           /\ r.result.total_results <= limit
           /\ Len(r.result.results) = Min(Len(Matching(query)), limit)
           /\ \A i \in DOMAIN r.result.results :
                r.result.results[i].message_id = Matching(query)[i].id

-----------------------------------------------------------------------------
(* C18 *)

Registry ==
    << "get_current_time", "calculate", "list_user_chats", "search_chat_history" >>

\* the place of a registered name in the registry
RegistryIndex(name) == CHOOSE i \in DOMAIN Registry : Registry[i] = name

Listed == pc = "responded" /\ response.op = "get_enabled_tools"

\* what C18 says of the returned sequence
C18_Returned ==
    Listed
    => LET got == response.content
           allow == settings.ENABLED_TOOLS
       IN  /\ ~settings.ENABLE_TOOLS => got = << >>
           /\ (settings.ENABLE_TOOLS /\ allow = << >>) => got = Registry
           /\ (settings.ENABLE_TOOLS /\ allow # << >>)
              => /\ Range(got) = Range(Registry) \cap Range(allow)
                 /\ \A i, j \in DOMAIN got :
                        i < j => RegistryIndex(got[i]) < RegistryIndex(got[j])

\* C18: get_enabled_tools returns the empty sequence when ENABLE_TOOLS is
\* false; otherwise, with an allow-list, exactly the registered names in the
\* allow-list, each once, in registry order; otherwise the whole registry in
\* order. It leaves the configuration (and the constant registry) as it was.
C18_EnabledTools ==
    /\ []C18_Returned
    /\ [][settings' = settings /\ TOOL_DEFINITIONS = Registry]_vars

\* an allow-list in another order than the registry, with an unknown name
C18_Witness ==
    /\ Listed
    /\ settings.ENABLE_TOOLS
    /\ settings.ENABLED_TOOLS = << "search_chat_history", "nope", "get_current_time" >>
    /\ response.content = << "get_current_time", "search_chat_history" >>

-----------------------------------------------------------------------------
(* C19 *)

Stripped == pc = "responded" /\ request.via = "strip_markdown"

\* C19: strip_markdown is idempotent: for every text x,
\* strip_markdown(strip_markdown(x)) = strip_markdown(x), one pass of the rule
\* list reaches a fixed point.
C19_Idempotent ==
    Stripped => strip_markdown(response.content) = response.content

-----------------------------------------------------------------------------
(* C20 *)

Letters ==
    { "a", "b", "c", "d", "e", "f", "g", "h", "i", "j", "k", "l", "m", "n", "o",
      "p", "q", "r", "s", "t", "u", "v", "w", "x", "y", "z", "C", "T" }

\* the characters of visible text on one line, and those of a link target
PlainChars == Letters \cup { " " }

TargetChars == Letters \cup { ":", "/", "." }

\* where the link that opens at the head of the text ends: its visible text
\* is text[2..j-1] and its target text[j+2..k-1], both non-empty; 0 if none
LinkTextEnd(text) == RunEnd(text, 2, PlainChars) + 1

LinkEnd(text) ==
    LET j == LinkTextEnd(text)
        k == RunEnd(text, j + 2, TargetChars) + 1
    IN  IF j > 2 /\ At(text, j, << "]", "(" >>) /\ k > j + 2
           /\ At(text, k, << ")" >>)
        THEN k ELSE 0

\* where the emphasis that opens at the head of the text ends: a run of n
\* asterisks (one, two or three), non-empty visible text, a run of n
\* asterisks; 0 if none
EmphasisEnd(text) ==
    LET n == RunEnd(text, 1, { "*" })
        e == RunEnd(text, n + 1, PlainChars)
    IN  IF n <= 3 /\ e > n /\ RunEnd(text, e + 1, { "*" }) = e + n
        THEN e + n ELSE 0

RECURSIVE WellMarked(_)
\* the text is made of visible characters, of visible text wrapped in bold,
\* italic or bold-italic asterisks, and of links [text](target)
WellMarked(text) ==
    IF text = << >> THEN TRUE
    ELSE IF text[1] \in PlainChars THEN WellMarked(Tail(text))
    ELSE IF text[1] = "*"
    THEN EmphasisEnd(text) > 0
         /\ WellMarked(SubSeq(text, EmphasisEnd(text) + 1, Len(text)))
    ELSE IF text[1] = "["
    THEN LinkEnd(text) > 0 /\ WellMarked(SubSeq(text, LinkEnd(text) + 1, Len(text)))
    ELSE FALSE

RECURSIVE Bare(_)
\* the visible text of a well marked text
Bare(text) ==
    IF text = << >> THEN << >>
    ELSE IF text[1] \in PlainChars THEN << text[1] >> \o Bare(Tail(text))
    ELSE IF text[1] = "*"
    THEN LET n == RunEnd(text, 1, { "*" })
         IN  SubSeq(text, n + 1, EmphasisEnd(text) - n)
             \o Bare(SubSeq(text, EmphasisEnd(text) + 1, Len(text)))
    ELSE SubSeq(text, 2, LinkTextEnd(text) - 1)
         \o Bare(SubSeq(text, LinkEnd(text) + 1, Len(text)))

HasMarkup(text) == \E k \in DOMAIN text : text[k] \in { "*", "[" }

BoldAndItalicSpoken ==
    << "b", "o", "l", "d", " ", "a", "n", "d", " ", "i", "t", "a", "l", "i", "c" >>

-----------------------------------------------------------------------------
(* C21 *)

SynthesisCalls == SelectSeq(calls, LAMBDA c : c.api = "synthesize_speech")

Spoken == pc = "responded" /\ request.via = "text_to_speech"

\* C21: the speech service is never called with empty or whitespace-only
\* text: a request whose text is empty or only whitespace is answered 400
\* with no synthesis call, and the text of every synthesis call (the sanitized
\* text) is non-empty.
C21_NeverEmptySynthesis ==
    Spoken =>
        /\ Strip(request.text) = << >> =>
               response.status = 400 /\ SynthesisCalls = << >>
        /\ \A k \in DOMAIN SynthesisCalls :
               Strip(SynthesisCalls[k].text) # << >>

-----------------------------------------------------------------------------
(* C22 *)

\* a call made for user u: the call names u, or the method takes no user and
\* serves whoever calls it
OnBehalfOf(u, req) == req.user_id = u \/ req.user_id = None

\* the chats of the other users, and the messages of those chats
ForeignChats(u, cs) == SelectSeq(cs, LAMBDA c : c.user_id # u)

ForeignMsgs(u, cs, ms) ==
    SelectSeq(ms, LAMBDA m : \E i \in DOMAIN cs :
                                 cs[i].id = m.chat_id /\ cs[i].user_id # u)

ChatRowOps == { "create_chat", "get_chat", "get_user_chats" }

MessageRowOps == { "create_message", "get_chat_messages", "GET /chat/{chat_id}" }

\* the returned rows hold no chat of another user and no message of one
ReturnsNoForeignRow(u, cs, resp) ==
    /\ resp.op \in ChatRowOps =>
           \A k \in DOMAIN resp.content : resp.content[k].user_id = u
    /\ resp.op \in MessageRowOps =>
           \A k \in DOMAIN resp.content :
               \A i \in DOMAIN cs :
                   cs[i].id = resp.content[k].chat_id => cs[i].user_id = u

\* C22: every call of the persistence service made for a user u (get_chat,
\* get_user_chats, get_chat_messages, create_message, delete_chat) returns no
\* chat owned by another user and no message of such a chat, and leaves the
\* chats of the other users and their messages as they were.
C22_FilteredByOwner ==
    [][\A u \in Users :
           OnBehalfOf(u, request') =>
               /\ ReturnsNoForeignRow(u, chats, response')
               /\ ForeignChats(u, chats') = ForeignChats(u, chats)
               /\ ForeignMsgs(u, chats, msgs') = ForeignMsgs(u, chats, msgs)]_vars

-----------------------------------------------------------------------------
(* C25 *)

\* a read of the messages of a chat has returned them
MessagesRead ==
    \/ response.op = "get_chat_messages"
    \/ response.op = "GET /chat/{chat_id}" /\ ~response.raised

-----------------------------------------------------------------------------
(* C26 *)

\* the step is a delete of a chat, through the service or the endpoint
DeleteStep == request'.via \in { "delete_chat", "DELETE /chat/{chat_id}" }

Owned(chat_id, user_id) ==
    \E i \in DOMAIN chats : chats[i].id = chat_id /\ chats[i].user_id = user_id

\* what the delete answered: true (200 at the endpoint) or false (404)
DeleteAnswered(ok) ==
    IF request'.via = "delete_chat"
    THEN response'.content = << ok >>
    ELSE response'.status = (IF ok THEN 200 ELSE 404)

\* C26: delete_chat(id, user) on a chat owned by user removes the chat and
\* every message of it and returns true, and leaves every other chat and
\* every message of another chat as it was; when user owns no chat of that id
\* it returns false (404 at the endpoint) and both tables stay as they were.
C26_DeleteFrame ==
    [][DeleteStep =>
           IF Owned(request'.chat_id, request'.user_id)
           THEN /\ DeleteAnswered(TRUE)
                /\ \A i \in DOMAIN chats' : chats'[i].id # request'.chat_id
                /\ \A k \in DOMAIN msgs' : msgs'[k].chat_id # request'.chat_id
                /\ chats' = SelectSeq(chats, LAMBDA c : c.id # request'.chat_id)
                /\ msgs' = SelectSeq(msgs, LAMBDA m : m.chat_id # request'.chat_id)
           ELSE /\ DeleteAnswered(FALSE)
                /\ chats' = chats
                /\ msgs' = msgs]_vars

\* chat 1 and its two messages have been deleted for their owner; the chat
\* and the message of the other user are left
C26_Witness ==
    /\ request.via = "delete_chat"
    /\ request.chat_id = 1
    /\ response.content = << TRUE >>
    /\ Len(chats) = 1
    /\ chats[1].id = 2
    /\ Len(msgs) = 1
    /\ msgs[1].chat_id = 2

-----------------------------------------------------------------------------
(* C27 *)

\* the characters of a message a hit carries before the ellipsis
HitContentLength == 200

\* message.content[:200] + ("..." if len(message.content) > 200 else "")
HitContent(content) ==
    IF Len(content) > HitContentLength
    THEN SubSeq(content, 1, HitContentLength) \o << ".", ".", "." >>
    ELSE content

-----------------------------------------------------------------------------
(* C28 *)

\* the text is one image, ![alt](target), and nothing else
IsImage(text) == text # << >> /\ Image(text, 1).end = Len(text)

ImageAlt(text) == SubSeq(text, Image(text, 1).gs, Image(text, 1).ge)

\* C28: strip_markdown turns an image ![alt](target) into its alt text: the
\* exclamation mark, the brackets and the target are removed.
C28_ImageAltText ==
    (Stripped /\ IsImage(request.text))
        => response.content = Strip(ImageAlt(request.text))

-----------------------------------------------------------------------------
(* C29 *)

\* the result of a tool executed in round-trip i is in the turn history sent
\* by round-trip i + 1
ResultSent(run) ==
    /\ run.iteration < Len(ConverseCalls)
    /\ LET sent == ConverseCalls[run.iteration + 1].sent
       IN  \E j \in DOMAIN sent[Len(sent)].content :
               /\ IsToolResult(sent[Len(sent)].content[j])
               /\ sent[Len(sent)].content[j].toolResult.toolUseId = run.toolUseId

\* the loop has returned its text: at the iteration cap, or after a response
\* that asked for no tool (no call and no tool block has raised)
LoopReturned ==
    /\ InToolCalling
    /\ pc \in { "done", "responded" }
    /\ ConverseCalls # << >>
    /\ \/ result = MAX_ITERATIONS_MSG
       \/ ConverseCalls[Len(ConverseCalls)].outcome \notin Errors \cup { "tool_use" }

\* C29: when the conversation loop has returned, every tool it executed has
\* had its result sent to the provider by a later round-trip of the same
\* invocation; no tool is executed for the 5th response, whose results no
\* round-trip is left to send.
C29_ExecutedResultsSent ==
    LoopReturned => \A k \in DOMAIN executed : ResultSent(executed[k])

-----------------------------------------------------------------------------
(* C23 *)

\* C23: once the enclosing request has been cancelled during a round-trip, the
\* round-trip in flight is the last one the loop makes, and no assistant
\* message is stored for the request.
C23_CancelAbandons ==
    [][Cancelled =>
           /\ Len(calls') > Len(calls) => Len(calls) = request.cancelled_at
           /\ msgs' = msgs]_vars

-----------------------------------------------------------------------------
(* C24 *)

RECURSIVE OwnHistory(_, _)
\* the turn history of an invocation that runs alone, from its message and
\* the responses the provider gave it
OwnHistory(message, outs) ==
    IF outs = << >>
    THEN << [role |-> "user", content |-> << TextBlock(message) >>] >>
    ELSE LET out == outs[Len(outs)].out
         IN  OwnHistory(message, SubSeq(outs, 1, Len(outs) - 1))
             \o (IF out.kind # "response" THEN << >>
                 ELSE << [role |-> "assistant", content |-> out.content] >>
                      \o (IF out.stopReason # "tool_use" THEN << >>
                          ELSE << [role |-> "user",
                                   content |-> RunTools(out.content).tool_results] >>))

\* the text such an invocation returns
OwnText(outs) ==
    LET out == outs[Len(outs)].out
    IN  IF out.kind = "ClientError"
        THEN ErrorText("I encountered an error with tool calling: ", out.detail)
        ELSE IF out.kind = "Exception"
        THEN ErrorText("An unexpected error occurred: ", out.detail)
        ELSE IF out.stopReason = "tool_use" THEN MAX_ITERATIONS_MSG
        ELSE OrElse(FinalText(out.content),
                    IF out.stopReason = "end_turn"
                    THEN NO_RESPONSE_MSG ELSE RESPONSE_LIMIT_MSG)

\* C24: two invocations of the conversation loop that run at the same time
\* share no mutable state: under every interleaving each one counts its own
\* round-trips, sends the tool registry as it was defined, holds the turn
\* history of its own message, its own responses and its own tool results,
\* and returns the text that its own message and responses determine.
C24_NoSharedState ==
    \A i \in Invocations :
        pc[i] # "idle" =>
            /\ iteration[i] = Len(calls[i])
            /\ \A k \in DOMAIN calls[i] : calls[i][k].toolConfig = TOOL_DEFINITIONS
            /\ pc[i] \in { "await", "done" } =>
                   messages[i] = OwnHistory(request[i].message, calls[i])
            /\ pc[i] = "done" => result[i] = OwnText(calls[i])

\* both invocations are in flight, on different messages: one executes the
\* tools of its second response while the other waits for its second
C24_Witness ==
    /\ pc[1] = "exec"
    /\ pc[2] = "await"
    /\ iteration[1] = 2
    /\ iteration[2] = 1
    /\ request[1].message # request[2].message
    /\ Len(messages[2]) = 3

-----------------------------------------------------------------------------
(* C30 *)

\* C30: whatever the interleaving of a chat request with a delete of the
\* same chat, every stored message belongs to a chat that exists.
C30_NoOrphanMessage ==
    \A k \in DOMAIN msgs :
        \E i \in DOMAIN chats : chats[i].id = msgs[k].chat_id

====
